---------------------------- MODULE Spec2Model ----------------------------
(***************************************************************************)
(* Verification model of the day-5 hand tracking code:                     *)
(*   HandTracker and GestureController (src/hand_tracking/hand_tracker.py),*)
(*   the frame loop of examples/basic_hand_tracking.py,                    *)
(*   HomecomingBoard (examples/homecoming_board.py) and                    *)
(*   AdvancedGestureRecognizer (examples/advanced_gestures.py).            *)
(*                                                                         *)
(* Time is counted in half seconds: time.time() is a natural number of     *)
(* half seconds, so 1.0 s is 2 and 0.5 s is 1.  Python's None is NoGesture *)
(* for a gesture or a result and NoTime for a timestamp.                   *)
(***************************************************************************)
EXTENDS Integers, Sequences, FiniteSets, TLC

VARIABLES
    now,                 \* the value time.time() returns
    \* GestureController
    last_gesture, gesture_start_time,
    result,              \* what the latest process_gesture call returned
    \* history of the process_gesture calls (observer state)
    call_gesture,        \* the gesture argument of the latest call
    call_time,           \* the clock at the latest call
    hold_start,          \* the clock at the first call of the current hold
    hold_fires,          \* the non-None results returned in the current hold
    fired_before,        \* the gestures that fired in an earlier hold
    \* HandTracker
    gesture_history,
    recognized,          \* what the latest recognize_gesture call returned
    \* the frame loop
    hand,                \* the slot of the hand processed last in the latest
                         \* frame, NoHand when the frame showed no hand
    frames,              \* the frames the loop has read
    \* a HandTracker and a GestureController of their own for hand slot 0,
    \* which see the frames of that hand only (the reference of C8)
    solo_history, solo_recognized, solo_last_gesture, solo_start_time,
    solo_result,
    \* HomecomingBoard
    board,               \* the fields of the HomecomingBoard object
    saved_files,         \* the <n> of the files homecoming_board_<n>.jpg
    board_error,         \* the exception process_hand_gesture raised
    board_acted,         \* the clear, save, toggle and colour actions
                         \* performed in the current hold
    board_frames,        \* the iterations the loop of run has made
    board_running,       \* the loop of run has not been left
    \* the loop of main in examples/basic_hand_tracking.py
    main_running,        \* the loop has not been left
    last_key,            \* the key cv2.waitKey reported in the latest
                         \* iteration
    slot0_gesture,       \* the locals `gesture` and `action` for the first
    slot0_action,        \* hand of the latest frame with a hand
    show_help,           \* the local show_help
    frame_files,         \* the <n> of the files hand_tracking_frame_<n>.jpg
    \* AdvancedGestureRecognizer
    hand_positions_history,
    own_positions,       \* per hand slot, the centers of that hand's own
                         \* frames, newest position_history_size of them
    \* history of the calls (observer state)
    raw_calls,           \* the raw labels of the recognize_gesture calls of
                         \* SpecTracker, oldest first
    center_calls,        \* the centers of the recognize_advanced_gestures
                         \* calls, oldest first
    classified,          \* the pairs <<fingers up, label returned>> of the
                         \* recognize_gesture calls of SpecTracker
    \* what the latest draw_advanced_info call computed
    drawn_velocity,      \* its local `velocity`
    detected,            \* its local `advanced_gestures`
    swipe_velocity,      \* the local `velocity` of detect_swipe_right
    \* direct calls of recognize_gesture and recognize_advanced_gestures
    ingests,             \* the calls made
    ingest_len,          \* len(landmarks) of the latest call
    ingest_error,        \* the exception the latest call raised
    \* calls of count_fingers, of the classification of recognize_gesture
    \* and of detect_rock_on on one list of landmarks
    pose,                \* the hand shown: landmarks = HandAt(pose)
    fingers_counted,     \* what count_fingers returned
    raw_label,           \* the raw label of recognize_gesture
    rock_on,             \* what detect_rock_on returned
    \* a call of detect_pinch
    gap,                 \* index tip minus thumb tip of the landmarks passed
    pinch,               \* what detect_pinch returned
    \* calls of HandTracker.get_hand_center and get_bounding_box on one list
    points,              \* the list passed
    center_out,          \* what get_hand_center returned
    center_error,        \* the exception get_hand_center raised
    box_out,             \* what get_bounding_box returned
    box_error,           \* the exception get_bounding_box raised
    \* the landmarks passed to the latest process_gesture call
    call_landmarks,
    \* the time at which the hold the pipeline started from began
    established_at

ctrl_vars == <<last_gesture, gesture_start_time, result, call_gesture,
               call_time, hold_start, hold_fires, fired_before>>

trk_vars == <<gesture_history, recognized>>

solo_vars == <<hand, frames, solo_history, solo_recognized, solo_last_gesture,
               solo_start_time, solo_result>>

board_vars == <<board, saved_files, board_error, board_acted, board_frames,
                board_running>>

adv_vars == <<hand_positions_history, own_positions>>

log_vars == <<raw_calls, center_calls, classified>>

swipe_vars == <<drawn_velocity, detected, swipe_velocity>>

ingest_vars == <<ingests, ingest_len, ingest_error>>

cls_vars == <<pose, fingers_counted, raw_label, rock_on>>

fn_vars == <<gap, pinch, points, center_out, center_error, box_out, box_error,
             call_landmarks, established_at>>

loop_vars == <<main_running, last_key, slot0_gesture, slot0_action, show_help,
              frame_files>>

ext_vars == <<log_vars, swipe_vars, ingest_vars, cls_vars, fn_vars, loop_vars>>

vars == <<now, ctrl_vars, trk_vars, solo_vars, board_vars, adv_vars,
          ext_vars>>

(***************************************************************************)
(* Bounds of the model.                                                    *)
(***************************************************************************)
MaxTime == 7

MaxLoopTime == 3

MaxFrames == 3

MaxBoardTime == 3

MaxBoardFrames == 3

MaxAdvFrames == 4

MaxCalls == 7

MaxIngests == 3

(***************************************************************************)
(* Python values.                                                          *)
(***************************************************************************)
NoGesture == "None"

NoTime == -1

\* No exception has been raised.
NoError == "None"

\* None as HomecomingBoard.last_point.
NoPoint == <<>>

\* No hand has been processed yet.
NoHand == -1

\* bool(x) of an Optional[float]: None and 0.0 are both false.
Truthy(t) == t # NoTime /\ t # 0

(***************************************************************************)
(* HandTracker                                                             *)
(*                                                                         *)
(* A landmark list is a function from the indices 0..20 to points <<x, y>>:*)
(* landmarks[i][0] of the source is landmarks[i][1] here, landmarks[i][1]  *)
(* is landmarks[i][2].                                                     *)
(***************************************************************************)
THUMB_TIP == 4

THUMB_IP == 3

INDEX_TIP == 8

INDEX_PIP == 6

MIDDLE_TIP == 12

MIDDLE_PIP == 10

RING_TIP == 16

RING_PIP == 14

PINKY_TIP == 20

PINKY_PIP == 18

gesture_buffer_size == 5

FingerNames == {"thumb", "index", "middle", "ring", "pinky"}

\* The 21 points get_hand_landmarks yields for a hand that holds up exactly
\* the fingers of `up`: every joint at (1, 1), a raised finger's tip above
\* its PIP joint (y = 0), a lowered one below (y = 2), the raised thumb's
\* tip to the right of its IP joint (x = 2), the lowered one to the left.
HandShowing(up) ==
    [i \in 0..20 |->
        IF i = THUMB_TIP THEN <<IF "thumb" \in up THEN 2 ELSE 0, 1>>
        ELSE IF i = INDEX_TIP THEN <<1, IF "index" \in up THEN 0 ELSE 2>>
        ELSE IF i = MIDDLE_TIP THEN <<1, IF "middle" \in up THEN 0 ELSE 2>>
        ELSE IF i = RING_TIP THEN <<1, IF "ring" \in up THEN 0 ELSE 2>>
        ELSE IF i = PINKY_TIP THEN <<1, IF "pinky" \in up THEN 0 ELSE 2>>
        ELSE <<1, 1>>]

\* The hands the model shows to the tracker: a fist, a pointing hand and an
\* open hand.
InputFingers == {{}, {"index"}, FingerNames}

\* The pointing hand of HandShowing at another place of the image.
PointingElsewhere ==
    [i \in 0..20 |-> <<HandShowing({"index"})[i][1] + 3,
                       HandShowing({"index"})[i][2] + 3>>]

Frames == {HandShowing(up) : up \in InputFingers} \cup {PointingElsewhere}

\* The positions of a finger's tip the model tells apart: for the thumb the
\* x of the tip (the IP joint is at x = 1), for the other fingers the y of
\* the tip (the PIP joint is at y = 1).
TipPositions == {0, 1, 2}

Poses == [FingerNames -> TipPositions]

\* The 21 points of a hand whose tips are at the positions of `p`, every
\* other point at (1, 1).
HandAt(p) ==
    [i \in 0..20 |->
        IF i = THUMB_TIP THEN <<p["thumb"], 1>>
        ELSE IF i = INDEX_TIP THEN <<1, p["index"]>>
        ELSE IF i = MIDDLE_TIP THEN <<1, p["middle"]>>
        ELSE IF i = RING_TIP THEN <<1, p["ring"]>>
        ELSE IF i = PINKY_TIP THEN <<1, p["pinky"]>>
        ELSE <<1, 1>>]

\* A variant of is_finger_up that also reports up a finger whose tip is level
\* with its PIP joint.
is_finger_up_or_level(landmarks, finger) ==
    IF finger = "thumb"
    THEN landmarks[THUMB_TIP][1] > landmarks[THUMB_IP][1]
    ELSE IF finger = "index"
    THEN landmarks[INDEX_TIP][2] <= landmarks[INDEX_PIP][2]
    ELSE IF finger = "middle"
    THEN landmarks[MIDDLE_TIP][2] <= landmarks[MIDDLE_PIP][2]
    ELSE IF finger = "ring"
    THEN landmarks[RING_TIP][2] <= landmarks[RING_PIP][2]
    ELSE IF finger = "pinky"
    THEN landmarks[PINKY_TIP][2] <= landmarks[PINKY_PIP][2]
    ELSE FALSE

\* HandTracker.is_finger_up
is_finger_up(landmarks, finger) ==
    IF finger = "thumb"
    THEN landmarks[THUMB_TIP][1] > landmarks[THUMB_IP][1]
    ELSE IF finger = "index"
    THEN landmarks[INDEX_TIP][2] < landmarks[INDEX_PIP][2]
    ELSE IF finger = "middle"
    THEN landmarks[MIDDLE_TIP][2] < landmarks[MIDDLE_PIP][2]
    ELSE IF finger = "ring"
    THEN landmarks[RING_TIP][2] < landmarks[RING_PIP][2]
    ELSE IF finger = "pinky"
    THEN landmarks[PINKY_TIP][2] < landmarks[PINKY_PIP][2]
    ELSE FALSE

\* HandTracker.count_fingers
count_fingers(landmarks) ==
    Cardinality({finger \in FingerNames : is_finger_up(landmarks, finger)})

\* The fingers that is_finger_up reports up.
FingerState(landmarks) ==
    {finger \in FingerNames : is_finger_up(landmarks, finger)}

\* A variant of raw_gesture that tests the thumb before the index finger and
\* calls two fingers peace as soon as the index finger is one of them.
raw_gesture_index_only(landmarks) ==
    LET finger_count == count_fingers(landmarks)
    IN  IF finger_count = 0 THEN "fist"
        ELSE IF finger_count = 1
        THEN IF is_finger_up(landmarks, "thumb") THEN "thumbs_up"
             ELSE IF is_finger_up(landmarks, "index") THEN "point"
             ELSE "one"
        ELSE IF finger_count = 2
        THEN IF is_finger_up(landmarks, "index") THEN "peace" ELSE "two"
        ELSE IF finger_count = 3 THEN "three"
        ELSE IF finger_count = 4 THEN "four"
        ELSE IF finger_count = 5 THEN "open_hand"
        ELSE "unknown"

\* A variant of raw_gesture without the branch for four fingers.
raw_gesture_without_four(landmarks) ==
    LET finger_count == count_fingers(landmarks)
    IN  IF finger_count = 0 THEN "fist"
        ELSE IF finger_count = 1
        THEN IF is_finger_up(landmarks, "index") THEN "point"
             ELSE IF is_finger_up(landmarks, "thumb") THEN "thumbs_up"
             ELSE "one"
        ELSE IF finger_count = 2
        THEN IF /\ is_finger_up(landmarks, "index")
                /\ is_finger_up(landmarks, "middle")
             THEN "peace"
             ELSE "two"
        ELSE IF finger_count = 3 THEN "three"
        ELSE IF finger_count = 5 THEN "open_hand"
        ELSE "unknown"

\* The raw label of HandTracker.recognize_gesture (the local `gesture`).
raw_gesture(landmarks) ==
    LET finger_count == count_fingers(landmarks)
    IN  IF finger_count = 0 THEN "fist"
        ELSE IF finger_count = 1
        THEN IF is_finger_up(landmarks, "index") THEN "point"
             ELSE IF is_finger_up(landmarks, "thumb") THEN "thumbs_up"
             ELSE "one"
        ELSE IF finger_count = 2
        THEN IF /\ is_finger_up(landmarks, "index")
                /\ is_finger_up(landmarks, "middle")
             THEN "peace"
             ELSE "two"
        ELSE IF finger_count = 3 THEN "three"
        ELSE IF finger_count = 4 THEN "four"
        ELSE IF finger_count = 5 THEN "open_hand"
        ELSE "unknown"

\* The raw labels the frames of the model produce.
RawLabels == {raw_gesture(landmarks) : landmarks \in Frames}

\* list.count
Count(history, label) ==
    Cardinality({i \in 1..Len(history) : history[i] = label})

\* The orders in which a Python set of labels may be iterated.  The order of
\* a set of strings follows the strings' hashes, which differ from run to
\* run: every order is possible.  An order is a sequence of all the labels;
\* a set is iterated in the order of its members in it.
IterOrders ==
    {order \in [1..Cardinality(RawLabels) -> RawLabels] :
        \A i, j \in DOMAIN order : order[i] = order[j] => i = j}

\* The labels of a window.
LabelsIn(history) == {history[i] : i \in DOMAIN history}

\* The orders in which a Python set of the given labels may be iterated.
OrdersOf(labels) ==
    {order \in [1..Cardinality(labels) -> labels] :
        \A i, j \in DOMAIN order : order[i] = order[j] => i = j}

\* A variant of most_common that returns the newest label of the window.
most_common_newest(history, order) == history[Len(history)]

\* max(set(history), key=history.count) when the set is iterated in
\* `order`: max returns the first element of the iteration whose key is
\* the largest.
most_common(history, order) ==
    LET members == SelectSeq(order,
                             LAMBDA label : \E i \in DOMAIN history :
                                               history[i] = label)
        best == CHOOSE i \in DOMAIN members :
                  /\ \A j \in DOMAIN members :
                        Count(history, members[j]) <= Count(history, members[i])
                  /\ \A j \in 1..(i - 1) :
                        Count(history, members[j]) < Count(history, members[i])
    IN  members[best]

\* A variant of push_gesture that evicts the newest entry but one instead of
\* the oldest.
push_gesture_evict_newer(history, label) ==
    IF Len(history) + 1 > gesture_buffer_size
    THEN Append(SubSeq(history, 1, Len(history) - 1), label)
    ELSE Append(history, label)

\* A variant of push_gesture that keeps a window of 7 labels.
push_gesture_window_of_7(history, label) ==
    IF Len(history) + 1 > 7
    THEN Tail(Append(history, label))
    ELSE Append(history, label)

\* gesture_history.append(gesture), then pop(0) beyond gesture_buffer_size.
push_gesture(history, label) ==
    IF Len(history) + 1 > gesture_buffer_size
    THEN Tail(Append(history, label))
    ELSE Append(history, label)

\* HandTracker.recognize_gesture(landmarks) on the window `history`, the
\* set of the window being iterated in `order`: the new window and the
\* returned label.
recognize_gesture(history, landmarks, order) ==
    LET pushed == push_gesture(history, raw_gesture(landmarks))
    IN  [gesture_history |-> pushed,
         gesture |-> IF pushed # <<>> THEN most_common(pushed, order)
                     ELSE raw_gesture(landmarks)]

\* len(landmarks)
NumPoints(landmarks) == Cardinality(DOMAIN landmarks)

\* HandTracker.recognize_gesture(landmarks) for a list of any length: the
\* new window, the returned label and the exception raised (NoError when
\* none).  count_fingers reads the points of all five fingers, up to
\* landmarks[PINKY_TIP], before anything is pushed; a shorter list raises
\* IndexError there.  No other test of the length is made.
recognize_gesture_checked(history, landmarks, order) ==
    IF NumPoints(landmarks) <= PINKY_TIP
    THEN [gesture_history |-> history, gesture |-> NoGesture,
          error |-> "IndexError"]
    ELSE [gesture_history |->
              recognize_gesture(history, landmarks, order).gesture_history,
          gesture |-> recognize_gesture(history, landmarks, order).gesture,
          error |-> NoError]

\* HandTracker.draw_info(image, landmarks, hand_label): it calls
\* recognize_gesture for the text it draws; the new window.
draw_info(history, landmarks, order) ==
    recognize_gesture(history, landmarks, order).gesture_history

(***************************************************************************)
(* GestureController                                                       *)
(***************************************************************************)
min_gesture_duration == 2

gesture_actions ==
    [ fist      |-> "Fist detected - Action: Reset",
      open_hand |-> "Open hand detected - Action: Stop/Pause",
      point     |-> "Point detected - Action: Select/Click",
      peace     |-> "Peace sign detected - Action: Victory/Confirm",
      thumbs_up |-> "Thumbs up detected - Action: Approve/Like",
      one       |-> "One finger detected - Action: Option 1",
      two       |-> "Two fingers detected - Action: Option 2",
      three     |-> "Three fingers detected - Action: Option 3",
      four      |-> "Four fingers detected - Action: Option 4" ]

\* The gestures the model passes to process_gesture: two with an entry in
\* gesture_actions and one without.
GestureArgs == {"fist", "open_hand", "unknown"}

\* GestureController.__init__
ControllerInit == [last_gesture |-> NoGesture, gesture_start_time |-> NoTime]

\* A variant of process_gesture that does not clear gesture_start_time when
\* it fires.
process_gesture_no_clear(c, gesture, current_time) ==
    IF gesture # c.last_gesture
    THEN [last_gesture |-> gesture, gesture_start_time |-> current_time,
          result |-> NoGesture]
    ELSE IF /\ Truthy(c.gesture_start_time)
            /\ current_time - c.gesture_start_time >= min_gesture_duration
            /\ gesture \in DOMAIN gesture_actions
         THEN [last_gesture |-> c.last_gesture,
               gesture_start_time |-> c.gesture_start_time,
               result |-> gesture_actions[gesture]]
         ELSE [last_gesture |-> c.last_gesture,
               gesture_start_time |-> c.gesture_start_time,
               result |-> NoGesture]

\* A variant of process_gesture that keeps the old gesture_start_time when
\* the gesture changes and a start time is already set.
process_gesture_keep_start(c, gesture, current_time) ==
    IF gesture # c.last_gesture
    THEN [last_gesture |-> gesture,
          gesture_start_time |-> IF c.gesture_start_time = NoTime
                                 THEN current_time
                                 ELSE c.gesture_start_time,
          result |-> NoGesture]
    ELSE IF /\ Truthy(c.gesture_start_time)
            /\ current_time - c.gesture_start_time >= min_gesture_duration
            /\ gesture \in DOMAIN gesture_actions
         THEN [last_gesture |-> c.last_gesture,
               gesture_start_time |-> NoTime,
               result |-> gesture_actions[gesture]]
         ELSE [last_gesture |-> c.last_gesture,
               gesture_start_time |-> c.gesture_start_time,
               result |-> NoGesture]

\* A variant of process_gesture that does not wait for min_gesture_duration.
process_gesture_no_wait(c, gesture, current_time) ==
    IF gesture # c.last_gesture
    THEN [last_gesture |-> gesture, gesture_start_time |-> current_time,
          result |-> NoGesture]
    ELSE IF /\ Truthy(c.gesture_start_time)
            /\ gesture \in DOMAIN gesture_actions
         THEN [last_gesture |-> c.last_gesture,
               gesture_start_time |-> NoTime,
               result |-> gesture_actions[gesture]]
         ELSE [last_gesture |-> c.last_gesture,
               gesture_start_time |-> c.gesture_start_time,
               result |-> NoGesture]

\* process_gesture that, on a changed gesture, restarts the timer only when
\* the previous hold has not fired: after a fire gesture_start_time stays
\* None.
process_gesture_restart_unfired_only(c, gesture, current_time) ==
    IF gesture # c.last_gesture
    THEN [last_gesture |-> gesture,
          gesture_start_time |->
              IF c.last_gesture # NoGesture /\ c.gesture_start_time = NoTime
              THEN NoTime ELSE current_time,
          result |-> NoGesture]
    ELSE IF /\ Truthy(c.gesture_start_time)
            /\ current_time - c.gesture_start_time >= min_gesture_duration
            /\ gesture \in DOMAIN gesture_actions
         THEN [last_gesture |-> c.last_gesture,
               gesture_start_time |-> NoTime,
               result |-> gesture_actions[gesture]]
         ELSE [last_gesture |-> c.last_gesture,
               gesture_start_time |-> c.gesture_start_time,
               result |-> NoGesture]

\* GestureController.process_gesture(gesture, landmarks) called when
\* time.time() returns current_time, on the controller fields c: the new
\* fields and the returned value.  The handlers on_fist .. on_four return a
\* fixed string and do not read the landmarks.
process_gesture(c, gesture, current_time) ==
    IF gesture # c.last_gesture
    THEN [last_gesture |-> gesture, gesture_start_time |-> current_time,
          result |-> NoGesture]
    ELSE IF /\ Truthy(c.gesture_start_time)
            /\ current_time - c.gesture_start_time >= min_gesture_duration
            /\ gesture \in DOMAIN gesture_actions
         THEN [last_gesture |-> c.last_gesture,
               gesture_start_time |-> NoTime,
               result |-> gesture_actions[gesture]]
         ELSE [last_gesture |-> c.last_gesture,
               gesture_start_time |-> c.gesture_start_time,
               result |-> NoGesture]

(***************************************************************************)
(* HomecomingBoard                                                         *)
(*                                                                         *)
(* The canvas is the list of the cv2 drawing calls that made it what it   *)
(* is: np.zeros is the empty list, a black disc removes the lines it       *)
(* covers, and a black disc on an all-zero canvas leaves it all zeros.     *)
(* Equal lists are equal canvases.                                         *)
(***************************************************************************)
min_gesture_time == 1

brush_size == 5

colors ==
    [n \in 1..5 |->
        IF n = 1 THEN <<0, 0, 255>>
        ELSE IF n = 2 THEN <<0, 255, 0>>
        ELSE IF n = 3 THEN <<255, 0, 0>>
        ELSE IF n = 4 THEN <<0, 255, 255>>
        ELSE <<255, 0, 255>>]

\* HomecomingBoard.__init__
BoardInit ==
    [canvas |-> <<>>, current_color |-> <<0, 255, 0>>, is_drawing |-> FALSE,
     last_point |-> NoPoint, show_palette |-> TRUE,
     show_instructions |-> TRUE,
     last_gesture |-> NoGesture, gesture_start_time |-> NoTime]

\* cv2.line(canvas, pt1, pt2, color, thickness)
Line(canvas, pt1, pt2, color, thickness) ==
    Append(canvas, [shape |-> "line", pt1 |-> pt1, pt2 |-> pt2,
                    color |-> color, size |-> thickness])

\* cv2.circle(canvas, center, radius, (0, 0, 0), -1): the lines inside the
\* disc are painted over; with no line left the canvas is all zeros.  A
\* line lies inside the disc when both its ends, widened by half its
\* thickness and the rounding of the rasterization, are in it.
Erase(canvas, center, radius) ==
    LET inside(drawn) ==
            /\ radius >= drawn.size \div 2 + 2
            /\ \A pt \in {drawn.pt1, drawn.pt2} :
                  (pt[1] - center[1]) * (pt[1] - center[1])
                    + (pt[2] - center[2]) * (pt[2] - center[2])
                  <= (radius - (drawn.size \div 2 + 2))
                       * (radius - (drawn.size \div 2 + 2))
        kept == SelectSeq(canvas,
                          LAMBDA drawn : \/ drawn.shape = "circle"
                                         \/ ~inside(drawn))
        lines == {i \in DOMAIN kept : kept[i].shape = "line"}
        first == CHOOSE i \in lines : \A j \in lines : i <= j
    IN  IF lines = {} THEN <<>>
        ELSE Append(SubSeq(kept, first, Len(kept)),
                    [shape |-> "circle", pt1 |-> center, pt2 |-> center,
                     color |-> <<0, 0, 0>>, size |-> radius])

\* HomecomingBoard.process_hand_gesture(landmarks, gesture) on the board
\* fields b when the time.time() of its first line returns current_time and
\* the time.time() of the file name returns save_time: the new fields, the
\* exception raised (NoError when none), the files written and whether a
\* clear, save, toggle or colour action was performed.
process_hand_gesture(b, landmarks, gesture, current_time, save_time) ==
    LET index_tip == landmarks[INDEX_TIP]
        finger_count == count_fingers(landmarks)
        quiet(nb) == [board |-> nb, error |-> NoError, saved |-> {},
                      acted |-> FALSE]
        acts(nb, files) == [board |-> nb, error |-> NoError, saved |-> files,
                            acted |-> TRUE]
    IN  IF gesture # b.last_gesture
        THEN quiet([b EXCEPT !.last_gesture = gesture,
                             !.gesture_start_time = current_time])
        ELSE IF b.gesture_start_time = NoTime
        THEN \* float - None
             [board |-> b, error |-> "TypeError", saved |-> {},
              acted |-> FALSE]
        ELSE IF current_time - b.gesture_start_time < min_gesture_time
        THEN quiet(b)
        ELSE IF gesture = "point"
        THEN quiet([b EXCEPT !.canvas = IF b.last_point # NoPoint
                                        THEN Line(@, b.last_point, index_tip,
                                                  b.current_color, brush_size)
                                        ELSE @,
                             !.last_point = index_tip,
                             !.is_drawing = TRUE])
        ELSE IF gesture = "fist"
        THEN quiet([b EXCEPT !.canvas = Erase(@, index_tip, brush_size * 3),
                             !.last_point = index_tip])
        ELSE IF gesture = "open_hand"
        THEN acts([b EXCEPT !.canvas = <<>>,
                            !.last_point = NoPoint,
                            !.gesture_start_time = NoTime], {})
        ELSE IF gesture = "thumbs_up"
        THEN acts([b EXCEPT !.gesture_start_time = NoTime],
                  {save_time \div 2})
        ELSE IF gesture = "peace"
        THEN acts([b EXCEPT !.show_palette = ~@,
                            !.gesture_start_time = NoTime], {})
        ELSE IF gesture \in {"two", "three", "four"}
        THEN IF finger_count \in DOMAIN colors
             THEN acts([b EXCEPT !.current_color = colors[finger_count],
                                 !.gesture_start_time = NoTime], {})
             ELSE quiet([b EXCEPT !.gesture_start_time = NoTime])
        ELSE quiet([b EXCEPT !.last_point = NoPoint,
                             !.is_drawing = FALSE])

\* The keys cv2.waitKey reports to the loop of run: none, or one of the
\* keys the loop tests.
BoardKeys == {"none", "q", "i", "c", "p"}

\* The key handling of run on the board fields b.
handle_key(b, key) ==
    IF key = "i" THEN [b EXCEPT !.show_instructions = ~@]
    ELSE IF key = "c" THEN [b EXCEPT !.canvas = <<>>]
    ELSE IF key = "p" THEN [b EXCEPT !.show_palette = ~@]
    ELSE b

\* One iteration of the loop of HomecomingBoard.run on the board fields b
\* and the tracker's window: `success` is what cap.read() reports (a failed
\* read leaves the loop at once), hand_landmarks_list holds the hands detected
\* (at most one, the tracker being made with max_num_hands=1), key is the
\* key pressed, `order` the iteration order of the window's set, and
\* current_time and save_time the two readings of the clock.  The result
\* has the new fields and window, the gesture passed to
\* process_hand_gesture (NoGesture without a hand), the exception that left
\* the loop (NoError when none), the files written, whether an action was
\* performed, whether the loop goes on and the latest reading of the clock.
run_iteration(b, history, success, hand_landmarks_list, key, order, current_time, save_time) ==
    LET seen == success /\ hand_landmarks_list # <<>>
        landmarks == hand_landmarks_list[1]
        recognition == recognize_gesture(history, landmarks, order)
        processed ==
            IF seen
            THEN process_hand_gesture(b, landmarks, recognition.gesture,
                                      current_time, save_time)
            ELSE [board |-> b, error |-> NoError, saved |-> {},
                  acted |-> FALSE]
    IN  [board |-> IF success /\ processed.error = NoError
                   THEN handle_key(processed.board, key)
                   ELSE processed.board,
         gesture_history |-> IF seen THEN recognition.gesture_history
                             ELSE history,
         gesture |-> IF seen THEN recognition.gesture ELSE NoGesture,
         error |-> processed.error,
         saved |-> processed.saved,
         acted |-> processed.acted,
         running |-> success /\ processed.error = NoError /\ key # "q",
         clock |-> IF processed.saved # {} THEN save_time
                   ELSE current_time]

(***************************************************************************)
(* AdvancedGestureRecognizer                                               *)
(***************************************************************************)
position_history_size == 30

HandSlots == {0, 1}

RECURSIVE SumCoord(_, _, _)
\* sum(point[k] for point in landmarks[0 .. n])
SumCoord(landmarks, k, n) ==
    IF n < 0 THEN 0 ELSE landmarks[n][k] + SumCoord(landmarks, k, n - 1)

\* AdvancedGestureRecognizer.get_hand_center, for a list that is not empty
\* (// is the floor division, as \div is).
get_hand_center(landmarks) ==
    <<SumCoord(landmarks, 1, NumPoints(landmarks) - 1) \div NumPoints(landmarks),
      SumCoord(landmarks, 2, NumPoints(landmarks) - 1) \div NumPoints(landmarks)>>

\* A variant of push_position that never evicts.
push_position_no_evict(history, center) == Append(history, center)

\* hand_positions_history.append(center), then pop(0) beyond
\* position_history_size.
push_position(history, center) ==
    IF Len(history) + 1 > position_history_size
    THEN Tail(Append(history, center))
    ELSE Append(history, center)

\* abs
Abs(x) == IF x < 0 THEN -x ELSE x

RECURSIVE ISqrtBetween(_, _, _)
\* The r with r * r <= n < (r + 1) * (r + 1), given lo * lo <= n < hi * hi.
ISqrtBetween(n, lo, hi) ==
    IF hi - lo <= 1 THEN lo
    ELSE IF ((lo + hi) \div 2) * ((lo + hi) \div 2) <= n
         THEN ISqrtBetween(n, (lo + hi) \div 2, hi)
         ELSE ISqrtBetween(n, lo, (lo + hi) \div 2)

\* The floor of math.sqrt(n), for 0 <= n < 2^31.
ISqrt(n) == ISqrtBetween(n, 0, IF n < 46340 THEN n + 1 ELSE 46341)

\* (p[0] - q[0])**2 + (p[1] - q[1])**2
SqDist(p, q) ==
    (p[1] - q[1]) * (p[1] - q[1]) + (p[2] - q[2]) * (p[2] - q[2])

\* AdvancedGestureRecognizer.calculate_hand_velocity(landmarks) on the
\* position history `history`.
calculate_hand_velocity(history, landmarks) ==
    IF Len(history) < 2 THEN <<0, 0>>
    ELSE <<get_hand_center(landmarks)[1] - history[Len(history)][1],
           get_hand_center(landmarks)[2] - history[Len(history)][2]>>

\* AdvancedGestureRecognizer.detect_swipe_right
detect_swipe_right(history, landmarks) ==
    LET velocity == calculate_hand_velocity(history, landmarks)
    IN  velocity[1] > 20 /\ Abs(velocity[2]) < 10

\* AdvancedGestureRecognizer.detect_swipe_left
detect_swipe_left(history, landmarks) ==
    LET velocity == calculate_hand_velocity(history, landmarks)
    IN  velocity[1] < -20 /\ Abs(velocity[2]) < 10

\* detect_pinch with the comparison `distance <= 30`.
detect_pinch_inclusive(landmarks) ==
    SqDist(landmarks[THUMB_TIP], landmarks[INDEX_TIP]) <= 30 * 30

\* AdvancedGestureRecognizer.detect_pinch: math.sqrt(d) < 30 for an integer
\* d is d < 900.
detect_pinch(landmarks) ==
    SqDist(landmarks[THUMB_TIP], landmarks[INDEX_TIP]) < 30 * 30

RECURSIVE SumBetween(_, _, _)
\* sum(f[i] for i in first..last)
SumBetween(f, first, last) ==
    IF first > last THEN 0
    ELSE IF first = last THEN f[first]
    ELSE SumBetween(f, first, (first + last) \div 2)
           + SumBetween(f, (first + last) \div 2 + 1, last)

\* sum(f[i] for i in 1..n)
SumOver(f, n) == SumBetween(f, 1, n)

(***************************************************************************)
(* Python floats.  A float of detect_spread is zero or at least 1 and is   *)
(* kept as the natural number value * 2^52; naturals above the range of an *)
(* integer of the model are sequences of limbs to the base 2^15, the least *)
(* significant limb first and the most significant one not zero.           *)
(***************************************************************************)
LimbBase == 2 ^ 15

\* The limb of weight LimbBase^(i - 1).
BigLimb(a, i) == IF i >= 1 /\ i <= Len(a) THEN a[i] ELSE 0

\* The sequence without its most significant zero limbs.
BigTrim(a) ==
    SubSeq(a, 1, Cardinality({i \in 1..Len(a) :
                                 \E j \in i..Len(a) : a[j] # 0}))

\* The natural n < 2^31 as a sequence of limbs.
BigOf(n) ==
    BigTrim(<<n % LimbBase, (n \div LimbBase) % LimbBase,
              n \div (LimbBase * LimbBase)>>)

\* max(m, n)
Larger(m, n) == IF m < n THEN n ELSE m

\* a + b: limb i takes a carry when a limb below it overflows and the limbs
\* between them are full.
BigAdd(a, b) ==
    LET s(i) == BigLimb(a, i) + BigLimb(b, i)
        carry(i) == \E j \in 1..(i - 1) :
                       /\ s(j) >= LimbBase
                       /\ \A m \in (j + 1)..(i - 1) : s(m) = LimbBase - 1
    IN  IF a = <<>> THEN b
        ELSE IF b = <<>> THEN a
        ELSE BigTrim([i \in 1..(Larger(Len(a), Len(b)) + 1) |->
                         (s(i) + IF carry(i) THEN 1 ELSE 0) % LimbBase])

\* a - b, for a >= b: limb i lends when a limb below it is short and the
\* limbs between them are equal.
BigSub(a, b) ==
    LET borrow(i) == \E j \in 1..(i - 1) :
                        /\ BigLimb(a, j) < BigLimb(b, j)
                        /\ \A m \in (j + 1)..(i - 1) :
                              BigLimb(a, m) = BigLimb(b, m)
    IN  BigTrim([i \in 1..Len(a) |->
                    (a[i] - BigLimb(b, i) - (IF borrow(i) THEN 1 ELSE 0)
                       + LimbBase) % LimbBase])

\* a < b
BigLess(a, b) ==
    \E i \in 1..Larger(Len(a), Len(b)) :
        /\ BigLimb(a, i) < BigLimb(b, i)
        /\ \A m \in (i + 1)..Larger(Len(a), Len(b)) :
              BigLimb(a, m) = BigLimb(b, m)

\* The natural with the digits c[i] < LimbBase^2 to the base LimbBase.
Carried(c) ==
    BigAdd(BigTrim([i \in 1..Len(c) |-> c[i] % LimbBase]),
           BigTrim(<<0>> \o [i \in 1..Len(c) |-> c[i] \div LimbBase]))

\* a * c, for 0 <= c <= LimbBase
BigTimes(a, c) ==
    IF a = <<>> THEN a ELSE Carried([i \in 1..Len(a) |-> a[i] * c])

\* a * 2^k
BigShift(a, k) ==
    IF a = <<>> THEN a
    ELSE [i \in 1..(k \div 15) |-> 0] \o BigTimes(a, 2 ^ (k % 15))

\* a * b, for at most LimbBase limbs: the products of two limbs are summed
\* by their weight, the low limbs and the high limbs of the products apart.
BigMul(a, b) ==
    LET low(k) == SumOver([i \in 1..Len(a) |->
                              (a[i] * BigLimb(b, k + 1 - i)) % LimbBase],
                          Len(a))
        high(k) == SumOver([i \in 1..Len(a) |->
                               (a[i] * BigLimb(b, k + 1 - i)) \div LimbBase],
                           Len(a))
    IN  IF a = <<>> \/ b = <<>> THEN <<>>
        ELSE BigAdd(Carried([k \in 1..(Len(a) + Len(b)) |-> low(k)]),
                    BigShift(Carried([k \in 1..(Len(a) + Len(b)) |->
                                         high(k)]), 15))

\* a[1] + ... + a[n] for a sequence a of n < LimbBase naturals: the limbs
\* are summed by their weight.
BigSum(a, n) ==
    IF a = <<>> THEN <<>>
    ELSE LET longest == CHOOSE w \in {Len(a[i]) : i \in 1..n} :
                           \A i \in 1..n : Len(a[i]) <= w
         IN  Carried([k \in 1..longest |->
                         SumOver([i \in 1..n |-> BigLimb(a[i], k)], n)])

\* The bit of weight 2^j.
BigBit(a, j) == (BigLimb(a, j \div 15 + 1) \div (2 ^ (j % 15))) % 2

\* a // 2^k
BigShiftRight(a, k) ==
    IF a = <<>> THEN a
    ELSE BigTrim([i \in 1..Len(a) |->
                     BigLimb(a, i + k \div 15) \div (2 ^ (k % 15))
                       + (BigLimb(a, i + k \div 15 + 1) % (2 ^ (k % 15)))
                           * (2 ^ (15 - (k % 15)))])

\* int.bit_length, for 0 <= n < 2^31
BitLength(n) == Cardinality({k \in 0..30 : 2 ^ k <= n})

\* The number of bits of a.
BigBits(a) ==
    IF a = <<>> THEN 0 ELSE 15 * (Len(a) - 1) + BitLength(a[Len(a)])

\* A digit of a square root: the largest x < 2^bits with
\* x * (doubled + x) <= scaled.
SqrtDigit(doubled, scaled, bits) ==
    Cardinality({x \in 1..(2 ^ bits - 1) :
                    ~BigLess(scaled, BigTimes(BigAdd(doubled, BigOf(x)), x))})

\* The square root with its digit appended.
SqrtAppend(root, rest, bits, digit) ==
    [root |-> BigAdd(BigShift(root, bits), BigOf(digit)),
     rest |-> BigSub(BigShift(rest, 2 * bits),
                     BigTimes(BigAdd(BigShift(root, bits + 1), BigOf(digit)),
                              digit))]

\* The digit-by-digit square root carried on by `bits` binary digits: for
\* root = floor(sqrt(v)) and rest = v - root^2 of some v, the pair of
\* floor(sqrt(v * 4^bits)) and v * 4^bits less its square.
SqrtStep(root, rest, bits) ==
    SqrtAppend(root, rest, bits,
               SqrtDigit(BigShift(root, bits + 1), BigShift(rest, 2 * bits),
                         bits))

RECURSIVE SqrtDigits(_, _)
\* The square root carried on by k binary digits, four at a time; the
\* digits after an exact root are zero.
SqrtDigits(r, k) ==
    IF k = 0 \/ r.rest = <<>>
    THEN [root |-> BigShift(r.root, k), rest |-> r.rest]
    ELSE SqrtDigits(SqrtStep(r.root, r.rest, IF k < 4 THEN k ELSE 4),
                    IF k < 4 THEN 0 ELSE k - 4)

\* floor(sqrt(n) * 2^k), for a natural n < 2^31
SqrtScaled(n, k) ==
    SqrtDigits([root |-> BigOf(ISqrt(n)),
                rest |-> BigOf(n - ISqrt(n) * ISqrt(n))], k).root

\* math.sqrt(n) for an integer 0 <= n < 2^31, times 2^52: sqrt(n) rounded
\* to the nearest float, a number of 53 significant bits.  The root of a
\* square is exact; another root lies in [2^e, 2^(e+1)) for the e with
\* floor(sqrt(n)) of e + 1 bits and is never half way between two floats,
\* so it is rounded by its bit of weight 2^(e-53).
math_sqrt(n) ==
    IF ISqrt(n) * ISqrt(n) = n THEN BigShift(BigOf(ISqrt(n)), 52)
    ELSE BigShift(BigShiftRight(BigAdd(SqrtScaled(n, 54 - BitLength(ISqrt(n))),
                                       <<1>>), 1),
                  BitLength(ISqrt(n)) - 1)

\* The natural a rounded to 53 significant bits, to the nearest and a tie
\* to the even one.
RoundToFloat(a) ==
    IF BigBits(a) <= 53 THEN a
    ELSE LET cut == BigBits(a) - 53
             up == /\ BigBit(a, cut - 1) = 1
                   /\ \/ \E j \in 0..(cut - 2) : BigBit(a, j) = 1
                      \/ BigBit(a, cut) = 1
         IN  BigShift(BigAdd(BigShiftRight(a, cut),
                             IF up THEN <<1>> ELSE <<>>), cut)

\* x + y for two floats that are zero or at least 1
float_add(x, y) ==
    IF x = <<>> THEN y
    ELSE IF y = <<>> THEN x
    ELSE RoundToFloat(BigAdd(x, y))

\* AdvancedGestureRecognizer.detect_spread: the four distances between
\* adjacent fingertips are floats, added to total_spread one after the
\* other; total_spread > 300 compares the float with the integer.  The
\* rounding of a float is monotonic and the integers are floats, so
\* total_spread lies between the sums of the distances rounded down and
\* rounded up to integers.
detect_spread(landmarks) ==
    LET fingertips == <<landmarks[THUMB_TIP], landmarks[INDEX_TIP],
                        landmarks[MIDDLE_TIP], landmarks[RING_TIP],
                        landmarks[PINKY_TIP]>>
        d(i) == SqDist(fingertips[i], fingertips[i + 1])
        total_spread ==
            float_add(float_add(float_add(float_add(<<>>, math_sqrt(d(1))),
                                          math_sqrt(d(2))),
                                math_sqrt(d(3))),
                      math_sqrt(d(4)))
    IN  IF ISqrt(d(1)) + ISqrt(d(2)) + ISqrt(d(3)) + ISqrt(d(4)) > 300
        THEN TRUE
        ELSE IF ISqrt(d(1)) + ISqrt(d(2)) + ISqrt(d(3)) + ISqrt(d(4)) + 4
                  <= 300
        THEN FALSE
        ELSE BigLess(BigShift(BigOf(300), 52), total_spread)

\* detect_wave with the comparison `velocity_changes >= 3`.
detect_wave_three_changes(history) ==
    IF Len(history) < 20 THEN FALSE
    ELSE LET xs == [i \in 1..20 |-> history[Len(history) - 20 + i][1]]
         IN  Cardinality({i \in 2..19 :
                 \/ xs[i] > xs[i - 1] /\ xs[i] > xs[i + 1]
                 \/ xs[i] < xs[i - 1] /\ xs[i] < xs[i + 1]}) >= 3

\* AdvancedGestureRecognizer.detect_wave
detect_wave(history) ==
    IF Len(history) < 20 THEN FALSE
    ELSE LET x_positions == [i \in 1..20 |->
                                history[Len(history) - 20 + i][1]]
             velocity_changes ==
                 Cardinality({i \in 2..19 :
                     \/ /\ x_positions[i] > x_positions[i - 1]
                        /\ x_positions[i] > x_positions[i + 1]
                     \/ /\ x_positions[i] < x_positions[i - 1]
                        /\ x_positions[i] < x_positions[i + 1]})
         IN  velocity_changes > 3

\* floor(sqrt(a[1]) * 2^k) + ... + floor(sqrt(a[n]) * 2^k)
SumOfRoots(a, n, k) ==
    BigSum(SubSeq([i \in 1..n |-> SqrtScaled(a[i], k)], 1, n), n)

\* a[1] + ... + a[n], of any size
BigSumOver(a, n) == BigSum(SubSeq([i \in 1..n |-> BigOf(a[i])], 1, n), n)

\* What a comparison of floats yields: "yes" or "no" where the numbers
\* compared, taken as reals, are further apart than the floats can be from
\* them; "rounding" where they are closer, and the rounding of sum, pow and
\* the division decides.
Compared(surely, surely_not) ==
    IF surely THEN "yes" ELSE IF surely_not THEN "no" ELSE "rounding"

\* avg_radius > 30 in detect_circle, for the radii sqrt(a[i]) / 15: with
\* s = sqrt(a[1]) + ... + sqrt(a[15]), avg_radius is s / 225.  The float is
\* within 2^-30 of the real for coordinates below 2^16; s * 2^48 is in
\* [roots, roots + 15] for roots the sum of the roots rounded down.  With
\* a center and radii that are integers (exact), s is `whole` and the floats
\* are the reals.
avg_radius_over_30(roots, whole, exact) ==
    LET thirty == BigShift(BigOf(225 * 30), 48)
        margin == BigShift(BigOf(225), 18)
    IN  IF exact THEN Compared(whole > 225 * 30, TRUE)
        ELSE Compared(BigLess(BigAdd(thirty, margin), roots),
                      BigLess(BigAdd(BigAdd(roots, BigOf(15)), margin),
                              thirty))

\* variance < 1000 in detect_circle: with squares = a[1] + ... + a[15],
\* variance is (15 squares - s^2) / 15^4.  The float is within 2^-20 of the
\* real for coordinates below 2^16 and a variance near 1000.  With a center,
\* radii and an avg_radius that are integers the floats are the reals.
variance_under_1000(roots, squares, whole, exact) ==
    LET thousand == BigOf(1000 * 50625)
        margin == BigShift(BigOf(50625), 76)
    IN  IF exact /\ whole % 225 = 0
        THEN Compared(BigLess(BigTimes(squares, 15),
                              BigAdd(BigMul(BigOf(whole), BigOf(whole)),
                                     thousand)), TRUE)
        ELSE Compared(BigLess(BigAdd(BigShift(BigTimes(squares, 15), 96),
                                     margin),
                              BigAdd(BigMul(roots, roots),
                                     BigShift(thousand, 96))),
                      ~BigLess(BigShift(BigTimes(squares, 15), 96),
                               BigAdd(BigAdd(BigMul(BigAdd(roots, BigOf(15)),
                                                    BigAdd(roots, BigOf(15))),
                                             BigShift(thousand, 96)),
                                      margin)))

\* AdvancedGestureRecognizer.detect_circle.  With the 15 positions p, their
\* sums sx and sy and a[i] = (15 p[i].x - sx)^2 + (15 p[i].y - sy)^2, the
\* radius of p[i] is sqrt(a[i]) / 15, which is below (ISqrt(a[i]) + 1) / 15.
\* The floats of center_x, center_y, the radii, avg_radius and variance are
\* the reals rounded by sum, pow, math.sqrt and the divisions; pow is
\* rounded as the C library chooses.  `rounding` is the value of
\* `variance < 1000 and avg_radius > 30` where that rounding decides it.
detect_circle(history, rounding) ==
    IF Len(history) < 15 THEN FALSE
    ELSE \E positions \in {[i \in 1..15 |-> history[Len(history) - 15 + i]]} :
         \E sx \in {SumOver([i \in 1..15 |-> positions[i][1]], 15)} :
         \E sy \in {SumOver([i \in 1..15 |-> positions[i][2]], 15)} :
         \E a \in {[i \in 1..15 |->
                      (15 * positions[i][1] - sx) * (15 * positions[i][1] - sx)
                    + (15 * positions[i][2] - sy) * (15 * positions[i][2] - sy)]} :
         \E whole \in {SumOver([i \in 1..15 |-> ISqrt(a[i])], 15)} :
         \E exact \in {/\ sx % 15 = 0
                       /\ sy % 15 = 0
                       /\ \A i \in 1..15 : ISqrt(a[i]) * ISqrt(a[i]) = a[i]} :
             IF whole + 15 < 225 * 30 THEN FALSE
             ELSE \E roots \in {SumOfRoots(a, 15, 48)} :
                  \E squares \in {BigSumOver(a, 15)} :
                  \E avg \in {avg_radius_over_30(roots, whole, exact)} :
                  \E var \in {IF avg = "no" THEN "no"
                              ELSE variance_under_1000(roots, squares, whole,
                                                       exact)} :
                      IF avg = "no" \/ var = "no" THEN FALSE
                      ELSE IF avg = "yes" /\ var = "yes" THEN TRUE
                      ELSE rounding

\* AdvancedGestureRecognizer.detect_ok_sign
detect_ok_sign(landmarks) ==
    LET middle_up == landmarks[MIDDLE_TIP][2] < landmarks[MIDDLE_PIP][2]
        ring_up == landmarks[RING_TIP][2] < landmarks[RING_PIP][2]
        pinky_up == landmarks[PINKY_TIP][2] < landmarks[PINKY_PIP][2]
    IN  /\ SqDist(landmarks[THUMB_TIP], landmarks[INDEX_TIP]) < 30 * 30
        /\ middle_up /\ ring_up /\ pinky_up

\* AdvancedGestureRecognizer.detect_rock_on
detect_rock_on(landmarks) ==
    LET index_up == landmarks[INDEX_TIP][2] < landmarks[INDEX_PIP][2]
        middle_down == landmarks[MIDDLE_TIP][2] > landmarks[MIDDLE_PIP][2]
        ring_down == landmarks[RING_TIP][2] > landmarks[RING_PIP][2]
        pinky_up == landmarks[PINKY_TIP][2] < landmarks[PINKY_PIP][2]
    IN  index_up /\ middle_down /\ ring_down /\ pinky_up

\* The keys of AdvancedGestureRecognizer.gesture_patterns, in the order of
\* the dict.
gesture_patterns ==
    <<"swipe_right", "swipe_left", "pinch", "spread", "wave", "circle",
      "ok_sign", "rock_on">>

\* gesture_patterns[gesture_name](landmarks) on the position history.
Detects(gesture_name, history, landmarks, rounding) ==
    IF gesture_name = "swipe_right" THEN detect_swipe_right(history, landmarks)
    ELSE IF gesture_name = "swipe_left"
    THEN detect_swipe_left(history, landmarks)
    ELSE IF gesture_name = "pinch" THEN detect_pinch(landmarks)
    ELSE IF gesture_name = "spread" THEN detect_spread(landmarks)
    ELSE IF gesture_name = "wave" THEN detect_wave(history)
    ELSE IF gesture_name = "circle" THEN detect_circle(history, rounding)
    ELSE IF gesture_name = "ok_sign" THEN detect_ok_sign(landmarks)
    ELSE detect_rock_on(landmarks)

\* AdvancedGestureRecognizer.recognize_advanced_gestures(landmarks) on the
\* position history: the new history, the returned list detected_gestures
\* and the exception raised (NoError when none).  The detectors run after
\* the center is pushed; they read the history and the landmarks and write
\* nothing.  An empty list fails in get_hand_center before the push, a list
\* of fewer than 21 points in detect_pinch or detect_spread after it.
recognize_advanced_gestures(history, landmarks, rounding) ==
    IF NumPoints(landmarks) = 0
    THEN [hand_positions_history |-> history, detected |-> <<>>,
          error |-> "ZeroDivisionError"]
    ELSE LET pushed == push_position(history, get_hand_center(landmarks))
         IN  IF NumPoints(landmarks) <= PINKY_TIP
             THEN [hand_positions_history |-> pushed, detected |-> <<>>,
                   error |-> "IndexError"]
             ELSE [hand_positions_history |-> pushed,
                   detected |->
                       SelectSeq(gesture_patterns,
                                 LAMBDA gesture_name :
                                     Detects(gesture_name, pushed, landmarks,
                                             rounding)),
                   error |-> NoError]

\* AdvancedGestureRecognizer.draw_advanced_info(image, landmarks, label) on
\* the tracker window and the position history, for a frame of 21 points:
\* it calls hand_tracker.recognize_gesture, calculate_hand_velocity and then
\* recognize_advanced_gestures; the new window and history, and the velocity
\* and the advanced gestures it draws.
draw_advanced_info(window, history, landmarks, order, rounding) ==
    [gesture_history |->
        recognize_gesture(window, landmarks, order).gesture_history,
     velocity |-> calculate_hand_velocity(history, landmarks),
     hand_positions_history |->
        recognize_advanced_gestures(history, landmarks,
                                    rounding).hand_positions_history,
     advanced_gestures |->
        recognize_advanced_gestures(history, landmarks, rounding).detected]

\* The fist of HandShowing moved right by dx.
FistAt(dx) ==
    [i \in 0..20 |-> <<HandShowing({})[i][1] + dx, HandShowing({})[i][2]>>]

\* The hands the model shows to the recognizer: a fist at two places.
AdvFrames == {FistAt(0), FistAt(25)}

\* The recognizer after construction and n frames of one hand that holds a
\* fist still: each frame pushed the fist's raw label and its center.
AfterStillFrames(n) ==
    [gesture_history |->
        [i \in 1..(IF n < gesture_buffer_size THEN n
                   ELSE gesture_buffer_size) |-> raw_gesture(FistAt(0))],
     hand_positions_history |->
        [i \in 1..(IF n < position_history_size THEN n
                   ELSE position_history_size) |-> get_hand_center(FistAt(0))]]

\* The effect of one process_gesture(gesture, _) call on the controller and
\* on the history of calls.
ControllerCall(gesture) ==
    LET r == process_gesture([last_gesture |-> last_gesture,
                              gesture_start_time |-> gesture_start_time],
                             gesture, now)
        new_hold == gesture # call_gesture
        fired == IF r.result # NoGesture THEN 1 ELSE 0
    IN  /\ last_gesture' = r.last_gesture
        /\ gesture_start_time' = r.gesture_start_time
        /\ result' = r.result
        /\ call_gesture' = gesture
        /\ call_time' = now
        /\ hold_start' = IF new_hold THEN now ELSE hold_start
        /\ hold_fires' = IF new_hold THEN fired ELSE hold_fires + fired
        /\ fired_before' = IF new_hold /\ hold_fires > 0
                           THEN fired_before \cup {call_gesture}
                           ELSE fired_before

CtrlInit ==
    /\ last_gesture = ControllerInit.last_gesture
    /\ gesture_start_time = ControllerInit.gesture_start_time
    /\ result = NoGesture
    /\ call_gesture = NoGesture
    /\ call_time = NoTime
    /\ hold_start = NoTime
    /\ hold_fires = 0
    /\ fired_before = {}

\* HandTracker.__init__
TrackerInit ==
    /\ gesture_history = <<>>
    /\ recognized = NoGesture

SoloInit ==
    /\ hand = NoHand
    /\ frames = 0
    /\ solo_history = <<>>
    /\ solo_recognized = NoGesture
    /\ solo_last_gesture = ControllerInit.last_gesture
    /\ solo_start_time = ControllerInit.gesture_start_time
    /\ solo_result = NoGesture

BoardStart ==
    /\ board = BoardInit
    /\ saved_files = {}
    /\ board_error = NoError
    /\ board_acted = 0
    /\ board_frames = 0
    /\ board_running = TRUE

\* AdvancedGestureRecognizer.__init__
AdvStart ==
    /\ hand_positions_history = <<>>
    /\ own_positions = [h \in HandSlots |-> <<>>]

\* No call has been made.
LogInit ==
    /\ raw_calls = <<>>
    /\ center_calls = <<>>
    /\ classified = {}

\* No hand has been classified: the hand at rest, all tips level.
ClassifyInit ==
    /\ pose = [finger \in FingerNames |-> 1]
    /\ fingers_counted = 0
    /\ raw_label = NoGesture
    /\ rock_on = FALSE

\* main, before `while True`.
LoopInit ==
    /\ main_running = TRUE
    /\ last_key = "none"
    /\ slot0_gesture = NoGesture
    /\ slot0_action = NoGesture
    /\ show_help = TRUE
    /\ frame_files = {}

\* No direct call has been made.
IngestInit ==
    /\ ingests = 0
    /\ ingest_len = 0
    /\ ingest_error = NoError

\* No frame has been drawn.
SwipeInit ==
    /\ drawn_velocity = <<0, 0>>
    /\ detected = <<>>
    /\ swipe_velocity = <<0, 0>>

\* No call of detect_pinch, get_hand_center or get_bounding_box has been
\* made yet, and no landmarks have been passed to process_gesture.
FnInit ==
    /\ gap = <<0, 0>>
    /\ pinch = FALSE
    /\ points = <<>>
    /\ center_out = NoPoint
    /\ center_error = NoError
    /\ box_out = NoPoint
    /\ box_error = NoError
    /\ call_landmarks = NoPoint
    /\ established_at = NoTime

Init ==
    /\ now = 0
    /\ CtrlInit
    /\ TrackerInit
    /\ SoloInit
    /\ LoopInit
    /\ BoardStart
    /\ AdvStart
    /\ LogInit
    /\ SwipeInit
    /\ IngestInit
    /\ ClassifyInit
    /\ FnInit

\* The states of the recognizer the model starts from: the one after
\* construction, and the ones after hand slot 0 has held a fist still for
\* position_history_size - 2 and for position_history_size frames.
InitAdvanced ==
    /\ now = 0
    /\ CtrlInit
    /\ SoloInit
    /\ LoopInit
    /\ BoardStart
    /\ recognized = NoGesture
    /\ raw_calls = <<>>
    /\ classified = {}
    /\ SwipeInit
    /\ IngestInit
    /\ ClassifyInit
    /\ FnInit
    /\ \E n \in {0, position_history_size - 2, position_history_size} :
          \E r \in {AfterStillFrames(n)} :
              /\ gesture_history = r.gesture_history
              /\ hand_positions_history = r.hand_positions_history
              /\ center_calls = r.hand_positions_history
              /\ own_positions =
                    [h \in HandSlots |->
                        IF h = 0 THEN r.hand_positions_history ELSE <<>>]

(***************************************************************************)
(* SpecController: calls of GestureController.process_gesture.             *)
(***************************************************************************)

\* The clock advances between two calls.
Tick ==
    /\ now < MaxTime
    /\ now' = now + 1
    /\ UNCHANGED <<ctrl_vars, trk_vars, solo_vars, board_vars, adv_vars,
                   ext_vars>>

\* A caller passes a gesture to GestureController.process_gesture.
ProcessGesture ==
    /\ \E gesture \in GestureArgs : ControllerCall(gesture)
    /\ UNCHANGED <<now, trk_vars, solo_vars, board_vars, adv_vars, ext_vars>>

NextController == Tick \/ ProcessGesture

SpecController == Init /\ [][NextController]_vars

(***************************************************************************)
(* SpecTracker: calls of HandTracker.recognize_gesture.                    *)
(***************************************************************************)

\* A caller passes the landmarks of a frame to recognize_gesture.
RecognizeGesture ==
    /\ Len(raw_calls) < MaxCalls
    /\ \E landmarks \in Frames, order \in IterOrders :
          LET r == recognize_gesture(gesture_history, landmarks, order)
          IN  /\ gesture_history' = r.gesture_history
              /\ recognized' = r.gesture
              /\ raw_calls' = Append(raw_calls, raw_gesture(landmarks))
              /\ classified' =
                    classified \cup
                        {<<FingerState(landmarks), r.gesture>>}
    /\ UNCHANGED <<now, ctrl_vars, solo_vars, board_vars, loop_vars, adv_vars,
                   center_calls, swipe_vars, ingest_vars, cls_vars, fn_vars>>

NextTracker == RecognizeGesture

SpecTracker == Init /\ [][NextTracker]_vars

(***************************************************************************)
(* Spec: the frame loop of examples/basic_hand_tracking.py, with up to two *)
(* hands in a frame.  One step is one iteration of `while True`: the read  *)
(* of the frame, the loop over the hands detected, in the order of the     *)
(* list, and the handling of the key.  The locals that only change the     *)
(* text drawn (frame_count, fps, last_action, action_display_time) are     *)
(* not kept.                                                               *)
(***************************************************************************)

\* The keys cv2.waitKey reports to the loop of main: none, or one of the
\* keys the loop tests.
MainKeys == {"none", "q", "s", "r", "h"}

\* The lists detect_hands returns to main, whose tracker is made with
\* max_num_hands=2: no hand, one hand or two hands, each a fist or a
\* pointing hand.
HandLists ==
    LET hands == {HandShowing({}), HandShowing({"index"})}
    IN  {<<>>} \cup {<<first>> : first \in hands}
               \cup {<<first, second>> : first \in hands, second \in hands}

\* The labels of the window after the raw labels of the given hands have
\* been pushed into it: the labels of the sets most_common iterates while
\* the hands are processed.
LabelsWith(history, hand_landmarks_list) ==
    LabelsIn(history)
      \cup {raw_gesture(hand_landmarks_list[i]) :
               i \in DOMAIN hand_landmarks_list}

\* The readings of time.time() that n consecutive calls may get when the
\* clock shows t at the first of them: it advances by at most one step
\* meanwhile, and not beyond `limit`.
Readings(t, n, limit) ==
    {times \in [1..n -> {u \in {t, t + 1} : u <= limit}] :
        \A i \in 1..(n - 1) : times[i] <= times[i + 1]}

\* The body of `for i, hand_landmarks in enumerate(hand_landmarks_list)` of
\* main for one hand, on the state s: draw_info, recognize_gesture and
\* process_gesture, which reads the clock as current_time.  s.calls
\* collects, per hand, the locals `gesture` and `action` and that reading.
process_hand(s, landmarks, order, current_time) ==
    LET r == recognize_gesture(draw_info(s.gesture_history, landmarks, order),
                               landmarks, order)
        c == process_gesture([last_gesture |-> s.last_gesture,
                              gesture_start_time |-> s.gesture_start_time],
                             r.gesture, current_time)
    IN  [s EXCEPT !.gesture_history = r.gesture_history,
                  !.last_gesture = c.last_gesture,
                  !.gesture_start_time = c.gesture_start_time,
                  !.calls = Append(@, [gesture |-> r.gesture,
                                       action |-> c.result,
                                       time |-> current_time])]

\* A variant of process_hands, for the lists of at most two hands, that
\* starts the window and the hold anew when the frame shows no hand.
process_hands_reset(s, hand_landmarks_list, order, times) ==
    IF hand_landmarks_list = <<>>
    THEN [s EXCEPT !.gesture_history = <<>>,
                   !.last_gesture = ControllerInit.last_gesture,
                   !.gesture_start_time = ControllerInit.gesture_start_time]
    ELSE IF Len(hand_landmarks_list) = 1
    THEN process_hand(s, hand_landmarks_list[1], order, times[1])
    ELSE process_hand(process_hand(s, hand_landmarks_list[1], order,
                                   times[1]),
                      hand_landmarks_list[2], order, times[2])

RECURSIVE process_hands(_, _, _, _)
\* `for i, hand_landmarks in enumerate(hand_landmarks_list)` of main, on the
\* state s, with the landmarks of the hands of one frame: the body of the
\* loop for each hand in turn, and nothing for an empty list.  times[i] is
\* the clock process_gesture reads for the i-th hand.
process_hands(s, hand_landmarks_list, order, times) ==
    IF hand_landmarks_list = <<>> THEN s
    ELSE process_hands(process_hand(s, Head(hand_landmarks_list), order,
                                    Head(times)),
                       Tail(hand_landmarks_list), order, Tail(times))

\* One iteration of `while True` in main on the state s: `success` is what
\* cap.read() reports, hand_landmarks_list the hands detected, key the key
\* cv2.waitKey reports, `order` the iteration order of the window's set and
\* `times` the readings of the clock, one for each hand and, for the key s,
\* one for the file name.  A failed read leaves the loop before anything
\* else is done; the key q leaves it at the end of the iteration; the key r
\* empties the window and clears the controller's hold.
main_iteration(s, success, hand_landmarks_list, key, order, times) ==
    IF ~success THEN [s EXCEPT !.running = FALSE]
    ELSE LET p == process_hands([s EXCEPT !.calls = <<>>],
                                hand_landmarks_list, order, times)
         IN  [p EXCEPT
                !.gesture_history = IF key = "r" THEN <<>> ELSE @,
                !.last_gesture = IF key = "r" THEN NoGesture ELSE @,
                !.gesture_start_time = IF key = "r" THEN NoTime ELSE @,
                !.frame_files =
                    IF key = "s"
                    THEN @ \cup {times[Len(hand_landmarks_list) + 1] \div 2}
                    ELSE @,
                !.show_help = IF key = "h" THEN ~@ ELSE @,
                !.running = key # "q",
                !.clock = IF times = <<>> THEN @ ELSE times[Len(times)]]

\* The tracker, the controller and the locals of main.
MainState ==
    [gesture_history |-> gesture_history,
     last_gesture |-> last_gesture,
     gesture_start_time |-> gesture_start_time,
     show_help |-> show_help,
     frame_files |-> frame_files,
     running |-> main_running,
     calls |-> <<>>,
     clock |-> now]

\* The tracker and the controller that see the hand of slot 0 only.
SoloState ==
    [MainState EXCEPT !.gesture_history = solo_history,
                      !.last_gesture = solo_last_gesture,
                      !.gesture_start_time = solo_start_time]

\* One iteration of `while True` in main.
MainIteration ==
    /\ main_running
    /\ frames < MaxFrames
    /\ \E success \in BOOLEAN :
       \E hand_landmarks_list \in IF success THEN HandLists ELSE {<<>>},
          key \in IF success THEN MainKeys ELSE {"none"} :
       \E r \in {[main |-> main_iteration(MainState, success,
                                          hand_landmarks_list, key, order,
                                          times),
                  solo |-> main_iteration(
                               SoloState, success,
                               SubSeq(hand_landmarks_list, 1,
                                      IF hand_landmarks_list = <<>>
                                      THEN 0 ELSE 1),
                               IF key = "r" THEN "r" ELSE "none", order,
                               times)] :
                    order \in OrdersOf(LabelsWith(
                                 gesture_history \o solo_history,
                                 hand_landmarks_list)),
                    times \in Readings(now,
                                       Len(hand_landmarks_list)
                                         + (IF key = "s" THEN 1 ELSE 0),
                                       MaxLoopTime)} :
          /\ main_running' = r.main.running
          /\ now' = r.main.clock
          /\ gesture_history' = r.main.gesture_history
          /\ last_gesture' = r.main.last_gesture
          /\ gesture_start_time' = r.main.gesture_start_time
          /\ show_help' = r.main.show_help
          /\ frame_files' = r.main.frame_files
          /\ solo_history' = r.solo.gesture_history
          /\ solo_last_gesture' = r.solo.last_gesture
          /\ solo_start_time' = r.solo.gesture_start_time
          /\ IF success
             THEN /\ frames' = frames + 1
                  /\ last_key' = key
                  /\ hand' = IF hand_landmarks_list = <<>> THEN NoHand
                             ELSE Len(hand_landmarks_list) - 1
             ELSE UNCHANGED <<frames, last_key, hand>>
          /\ IF success /\ hand_landmarks_list # <<>>
             THEN /\ recognized' =
                        r.main.calls[Len(hand_landmarks_list)].gesture
                  /\ result' = r.main.calls[Len(hand_landmarks_list)].action
                  /\ slot0_gesture' = r.main.calls[1].gesture
                  /\ slot0_action' = r.main.calls[1].action
                  /\ solo_recognized' = r.solo.calls[1].gesture
                  /\ solo_result' = r.solo.calls[1].action
             ELSE UNCHANGED <<recognized, result, slot0_gesture,
                              slot0_action, solo_recognized, solo_result>>
    /\ UNCHANGED <<call_gesture, call_time, hold_start, hold_fires,
                   fired_before, board_vars, adv_vars, log_vars, swipe_vars,
                   ingest_vars, cls_vars, fn_vars>>

\* time.time() advances between two iterations.
LoopTick ==
    /\ main_running
    /\ now < MaxLoopTime
    /\ now' = now + 1
    /\ UNCHANGED <<ctrl_vars, trk_vars, solo_vars, board_vars, adv_vars,
                   ext_vars>>

Next == LoopTick \/ MainIteration

Spec == Init /\ [][Next]_vars

(***************************************************************************)
(* SpecBoard: the frame loop of HomecomingBoard.run.  An exception         *)
(* process_hand_gesture raises leaves run and ends the program, as does    *)
(* the key q.                                                              *)
(***************************************************************************)

\* The fingers the hands shown to the board hold up: a fist, the gestures
\* point, peace, thumbs_up, one, two, three and four, and an open hand.
BoardFingers ==
    {{}, {"index"}, {"index", "middle"}, {"thumb"}, {"pinky"},
     {"thumb", "index"}, {"index", "middle", "ring"},
     {"index", "middle", "ring", "pinky"}, FingerNames}

\* The hands shown to the board.
BoardHands == {HandShowing(up) : up \in BoardFingers} \cup {PointingElsewhere}

\* What an iteration of run gets: a failed read, or a frame with a hand or
\* without one and the key cv2.waitKey reports.
BoardInputs ==
    {[success |-> TRUE, hands |-> hand_landmarks_list, key |-> key] :
        hand_landmarks_list \in
            {<<>>} \cup {<<landmarks>> : landmarks \in BoardHands},
        key \in BoardKeys}
    \cup {[success |-> FALSE, hands |-> <<>>, key |-> "none"]}

\* One iteration of `while True` in run.  The clock may advance between the
\* two readings process_hand_gesture makes of it.
RunIteration ==
    /\ board_running
    /\ board_frames < MaxBoardFrames
    /\ board_frames' = board_frames + 1
    /\ \E input \in BoardInputs :
       \E r \in {run_iteration(board, gesture_history, input.success,
                               input.hands, input.key, order, now,
                               save_time) :
                    order \in IF input.hands = <<>> THEN {<<>>}
                              ELSE OrdersOf(LabelsIn(push_gesture(
                                       gesture_history,
                                       raw_gesture(input.hands[1])))),
                    save_time \in {t \in {now, now + 1} :
                                      t <= MaxBoardTime}} :
          /\ board' = r.board
          /\ gesture_history' = r.gesture_history
          /\ recognized' = IF input.hands = <<>> THEN recognized
                           ELSE r.gesture
          /\ hand' = IF ~input.success THEN hand
                     ELSE IF input.hands = <<>> THEN NoHand ELSE 0
          /\ board_error' = r.error
          /\ board_running' = r.running
          /\ saved_files' = saved_files \cup r.saved
          /\ board_acted' =
                (IF input.hands = <<>> \/ r.gesture = board.last_gesture
                 THEN board_acted ELSE 0)
                  + (IF r.acted THEN 1 ELSE 0)
          /\ now' = r.clock
    /\ UNCHANGED <<ctrl_vars, frames, solo_history, solo_recognized,
                   solo_last_gesture, solo_start_time, solo_result, adv_vars,
                   ext_vars>>

\* time.time() advances between two frames.
BoardTick ==
    /\ board_running
    /\ now < MaxBoardTime
    /\ now' = now + 1
    /\ UNCHANGED <<ctrl_vars, trk_vars, solo_vars, board_vars, adv_vars,
                   ext_vars>>

NextBoard == BoardTick \/ RunIteration

SpecBoard == Init /\ [][NextBoard]_vars

(***************************************************************************)
(* SpecDemos: a run of one of the two programs the launcher starts with    *)
(* the choices 1 and 2, basic_hand_tracking.py or homecoming_board.py.     *)
(* The first iteration made decides which of the two loops is running.     *)
(***************************************************************************)
NextDemos ==
    \/ board_frames = 0 /\ board_running /\ Next
    \/ frames = 0 /\ main_running /\ NextBoard

SpecDemos == Init /\ [][NextDemos]_vars

(***************************************************************************)
(* SpecAdvanced: the frame loop of examples/advanced_gestures.py, with up  *)
(* to two hands in a frame.                                                *)
(***************************************************************************)

\* One iteration of `for i, hand_landmarks in enumerate(hand_landmarks_list)`
\* for the hand in slot h: draw_advanced_info.
AdvancedHandFrame(h) ==
    /\ frames < MaxAdvFrames
    /\ frames' = frames + 1
    /\ hand' = h
    /\ \E landmarks \in AdvFrames, order \in IterOrders,
          rounding \in BOOLEAN :
          \E r \in {draw_advanced_info(gesture_history,
                                       hand_positions_history, landmarks,
                                       order, rounding)} :
              /\ gesture_history' = r.gesture_history
              /\ hand_positions_history' = r.hand_positions_history
              /\ drawn_velocity' = r.velocity
              /\ detected' = r.advanced_gestures
              /\ swipe_velocity' =
                    calculate_hand_velocity(r.hand_positions_history,
                                            landmarks)
              /\ own_positions' =
                    [own_positions EXCEPT
                        ![h] = push_position(@, get_hand_center(landmarks))]
              /\ center_calls' =
                    Append(center_calls, get_hand_center(landmarks))
    /\ UNCHANGED <<now, ctrl_vars, recognized, solo_history, solo_recognized,
                   solo_last_gesture, solo_start_time, solo_result,
                   board_vars, loop_vars, raw_calls, classified, ingest_vars, cls_vars,
                   fn_vars>>

NextAdvanced == AdvancedHandFrame(0) \/ AdvancedHandFrame(1)

SpecAdvanced == InitAdvanced /\ [][NextAdvanced]_vars

(***************************************************************************)
(* SpecIngest: direct calls of HandTracker.recognize_gesture and of        *)
(* AdvancedGestureRecognizer.recognize_advanced_gestures with landmark     *)
(* lists of any length.  An exception ends the program.                    *)
(***************************************************************************)

\* The list `landmarks` cut or padded to n points.
Resized(landmarks, n) ==
    [i \in 0..(n - 1) |->
        IF i \in DOMAIN landmarks THEN landmarks[i] ELSE <<1, 1>>]

\* The lengths of the lists the model passes: empty, too short for
\* detect_pinch, one point short, right, one point long.
IngestLengths == {0, 5, 20, 21, 22}

IngestFrames ==
    {Resized(landmarks, n) : landmarks \in Frames, n \in IngestLengths}

\* A caller passes a landmark list to HandTracker.recognize_gesture.
IngestTracker ==
    /\ ingest_error = NoError
    /\ ingests < MaxIngests
    /\ ingests' = ingests + 1
    /\ \E landmarks \in IngestFrames, order \in IterOrders :
       \E r \in {recognize_gesture_checked(gesture_history, landmarks,
                                           order)} :
          /\ ingest_len' = NumPoints(landmarks)
          /\ ingest_error' = r.error
          /\ gesture_history' = r.gesture_history
          /\ recognized' = r.gesture
    /\ UNCHANGED <<now, ctrl_vars, solo_vars, board_vars, loop_vars, adv_vars, log_vars,
                   swipe_vars, cls_vars, fn_vars>>

\* A caller passes a landmark list to
\* AdvancedGestureRecognizer.recognize_advanced_gestures.
IngestAdvanced ==
    /\ ingest_error = NoError
    /\ ingests < MaxIngests
    /\ ingests' = ingests + 1
    /\ \E landmarks \in IngestFrames, rounding \in BOOLEAN :
       \E r \in {recognize_advanced_gestures(hand_positions_history,
                                             landmarks, rounding)} :
          /\ ingest_len' = NumPoints(landmarks)
          /\ ingest_error' = r.error
          /\ hand_positions_history' = r.hand_positions_history
          /\ detected' = r.detected
    /\ UNCHANGED <<now, ctrl_vars, trk_vars, solo_vars, board_vars, loop_vars,
                   own_positions, log_vars, drawn_velocity, swipe_velocity,
                   cls_vars, fn_vars>>

NextIngest == IngestTracker \/ IngestAdvanced

SpecIngest == Init /\ [][NextIngest]_vars

(***************************************************************************)
(* SpecClassify: the functions of one landmark list, count_fingers, the    *)
(* classification of recognize_gesture and detect_rock_on, applied to      *)
(* every hand of Poses.                                                    *)
(***************************************************************************)

\* A caller passes the landmarks of a hand to the three functions.
Classify ==
    /\ \E p \in Poses :
          /\ pose' = p
          /\ fingers_counted' = count_fingers(HandAt(p))
          /\ raw_label' = raw_gesture(HandAt(p))
          /\ rock_on' = detect_rock_on(HandAt(p))
    /\ UNCHANGED <<now, ctrl_vars, trk_vars, solo_vars, board_vars, loop_vars, adv_vars,
                   log_vars, swipe_vars, ingest_vars, fn_vars>>

NextClassify == Classify

SpecClassify == Init /\ [][NextClassify]_vars

(***************************************************************************)
(* Claims about GestureController.process_gesture (SpecController).        *)
(***************************************************************************)

\* C1: a hold (a run of consecutive calls with the same gesture argument)
\* returns at most one non-None result.
C1_AtMostOneFirePerHold == hold_fires <= 1

\* C1 witness: a hold that has fired, and a later call of it returned None.
C1_Witness ==
    /\ hold_fires = 1
    /\ result = NoGesture
    /\ call_time - hold_start > min_gesture_duration

\* C2 (as claimed): for a gesture with an entry in gesture_actions and every
\* start timestamp, 0 included, the hold has returned exactly one result, the
\* gesture's action, once a call of it was made min_gesture_duration or more
\* after its first call, and none before.
C2_FiresAtThresholdFromAnyStart ==
    call_gesture \in DOMAIN gesture_actions =>
        /\ hold_fires = (IF call_time - hold_start >= min_gesture_duration
                         THEN 1 ELSE 0)
        /\ result \in {NoGesture, gesture_actions[call_gesture]}

\* C3: a gesture that fired in an earlier hold and is held again after a call
\* with another gesture fires again exactly at the first call made
\* min_gesture_duration or more after the first call of the new hold, not
\* earlier, and not a second time in that hold.
C3_Rearmed ==
    call_gesture \in fired_before =>
        hold_fires = (IF call_time - hold_start >= min_gesture_duration
                      THEN 1 ELSE 0)

\* C3 witness: a gesture fired before has fired again in a new hold, at the
\* threshold.
C3_Witness ==
    /\ call_gesture \in fired_before
    /\ hold_fires = 1
    /\ result # NoGesture
    /\ call_time - hold_start = min_gesture_duration

\* C4: a call returns None when its gesture differs from the previous call's
\* (the first call included) and when less than min_gesture_duration has
\* passed since the hold started; a result implies that the gesture equals
\* last_gesture and that now - gesture_start_time >= min_gesture_duration.
C4_NeverFiresEarly ==
    [][ProcessGesture =>
          /\ (call_gesture' # call_gesture => result' = NoGesture)
          /\ (now - hold_start' < min_gesture_duration => result' = NoGesture)
          /\ (result' # NoGesture =>
                 /\ call_gesture' = last_gesture
                 /\ gesture_start_time # NoTime
                 /\ now - gesture_start_time >= min_gesture_duration)]_vars

\* C4 witness: a result returned exactly min_gesture_duration after the hold
\* started (the threshold is inclusive).
C4_Witness ==
    /\ result # NoGesture
    /\ call_time = now
    /\ call_time - hold_start = min_gesture_duration

(***************************************************************************)
(* Claims about HandTracker.recognize_gesture (SpecTracker).               *)
(***************************************************************************)

\* C6: the label recognize_gesture returns occurs in the window (the raw
\* label pushed, the oldest entry evicted) at least as often as every label
\* of the window; the window fist, fist, point, fist, fist returns fist.
C6_ReturnsAMostCommonLabel ==
    /\ gesture_history # <<>> =>
          \A i \in DOMAIN gesture_history :
              Count(gesture_history, gesture_history[i])
                  <= Count(gesture_history, recognized)
    /\ gesture_history = <<"fist", "fist", "point", "fist", "fist">> =>
          recognized = "fist"

\* C6 witness: the window of the example, returning fist.
C6_Witness ==
    /\ gesture_history = <<"fist", "fist", "point", "fist", "fist">>
    /\ recognized = "fist"

\* The label of the window that is most common and, among the most common
\* ones, first seen in the window.
FirstSeenMostCommon(history) ==
    history[CHOOSE i \in DOMAIN history :
               /\ \A j \in DOMAIN history :
                     Count(history, history[j]) <= Count(history, history[i])
               /\ \A j \in 1..(i - 1) :
                     Count(history, history[j]) < Count(history, history[i])]

\* C7 (as claimed): when labels tie for the highest count, recognize_gesture
\* returns the tied label that occurs first in the window, the same on every
\* run.
C7_TieGoesToFirstSeen ==
    gesture_history # <<>> =>
        recognized = FirstSeenMostCommon(gesture_history)

(***************************************************************************)
(* Claims about the frame loop with two hands (Spec).                      *)
(***************************************************************************)

\* C8 (as claimed): what the loop computes for the hand in slot 0 depends on
\* that hand's frames only: after a frame with hands the stabilized label
\* of the first hand is the one a tracker that saw only that hand returns,
\* and its action fires whenever it fires for a controller that saw only
\* that hand.
C8_HandsDoNotInteract ==
    hand # NoHand =>
        /\ slot0_gesture = solo_recognized
        /\ (solo_result # NoGesture => slot0_action = solo_result)

\* C10 (as claimed): an iteration of the loop for a frame with one hand,
\* which calls draw_info and recognize_gesture for it, pushes one label
\* into gesture_history: unless the key r empties the window, the window
\* after it is the one before with one label pushed.
C10_OnePushPerFrame ==
    [][(frames' = frames + 1 /\ hand' = 0 /\ last_key' # "r") =>
          \E label \in RawLabels :
             gesture_history' = push_gesture(gesture_history, label)]_vars

(***************************************************************************)
(* Claims about HomecomingBoard.process_hand_gesture (SpecBoard).          *)
(***************************************************************************)

\* C5 (as claimed): once a fire-once gesture has performed its action, the
\* further calls of the hold perform no further action and raise no error.
C5_QuietAfterFireOnce ==
    board_acted >= 1 => (board_acted = 1 /\ board_error = NoError)

(***************************************************************************)
(* Claims about AdvancedGestureRecognizer with two hands (SpecAdvanced).   *)
(***************************************************************************)

\* C9 (as claimed): the position history used for a hand holds that hand's
\* own centers only: after a frame of a hand it is the history of that
\* hand's frames, which no frame of the other hand appended to or evicted
\* from.
C9_PositionHistoryPerHand ==
    hand # NoHand => hand_positions_history = own_positions[hand]

(***************************************************************************)
(* Claims about the bounded histories.                                     *)
(***************************************************************************)

\* The newest n entries of a sequence (all of it when it is shorter).
Newest(calls, n) ==
    IF Len(calls) <= n THEN calls
    ELSE SubSeq(calls, Len(calls) - n + 1, Len(calls))

\* C11: after any sequence of recognize_gesture calls, gesture_history has at
\* most gesture_buffer_size (5) entries and they are the raw labels of the
\* most recent min(n, 5) calls in arrival order: the oldest entry is the one
\* evicted on overflow.
C11_WindowIsNewestRawLabels ==
    /\ Len(gesture_history) <= 5
    /\ gesture_history = Newest(raw_calls, 5)

\* C11 witness: more than five calls were made and the evicted oldest label
\* differs from the oldest one kept.
C11_Witness ==
    /\ Len(raw_calls) > 5
    /\ Len(gesture_history) = 5
    /\ raw_calls[1] # gesture_history[1]

\* C12: after any sequence of recognize_advanced_gestures calls,
\* hand_positions_history has at most position_history_size (30) entries and
\* they are the hand centers of the most recent min(n, 30) calls in arrival
\* order: the oldest entry is the one evicted on overflow.
C12_PositionsAreNewestCenters ==
    /\ Len(hand_positions_history) <= 30
    /\ hand_positions_history = Newest(center_calls, 30)

\* C12 witness: more than thirty calls were made, of which the newest moved
\* the hand, and the history is full.
C12_Witness ==
    /\ Len(center_calls) > 30
    /\ Len(hand_positions_history) = 30
    /\ hand_positions_history[30] # hand_positions_history[1]

(***************************************************************************)
(* Claims about the velocity and the swipes (SpecAdvanced).                *)
(***************************************************************************)

\* Whether gesture_name is in the list `detected`.
Reported(gesture_name) == \E i \in DOMAIN detected : detected[i] = gesture_name

\* C13 (as claimed): when the center of a hand moved horizontally by more
\* than 20 and vertically by less than 10 between its previous frame and
\* this one (so that it has at least 2 samples), the frame reports
\* swipe_right for a move to the right and swipe_left for a move to the
\* left.
C13_SwipeReported ==
    (hand # NoHand /\ Len(own_positions[hand]) >= 2) =>
        LET own == own_positions[hand]
            dx == own[Len(own)][1] - own[Len(own) - 1][1]
            dy == own[Len(own)][2] - own[Len(own) - 1][2]
        IN  /\ (dx > 20 /\ Abs(dy) < 10) => Reported("swipe_right")
            /\ (dx < -20 /\ Abs(dy) < 10) => Reported("swipe_left")

\* C14 (as claimed): the velocity computed for a frame, by the call before
\* the frame's center is pushed and by the calls after it, is the newest
\* center minus the one before it, and (0, 0) when the frame is the first.
C14_VelocityIsLastDifference ==
    hand # NoHand =>
        LET h == hand_positions_history
            expected == IF Len(h) < 2 THEN <<0, 0>>
                        ELSE <<h[Len(h)][1] - h[Len(h) - 1][1],
                               h[Len(h)][2] - h[Len(h) - 1][2]>>
        IN  drawn_velocity = expected /\ swipe_velocity = expected

(***************************************************************************)
(* Claims about frames without a hand (SpecDemos).                         *)
(***************************************************************************)

\* C15 (as claimed): an iteration of the loop of main or of run for a frame
\* with no detected hand changes neither gesture_history nor the
\* controller's (in run, the board's) last_gesture and gesture_start_time.
C15_NoHandFrameIsNoOp ==
    [][((frames' = frames + 1 \/ board_frames' = board_frames + 1)
           /\ hand' = NoHand)
          => /\ UNCHANGED <<gesture_history, last_gesture,
                            gesture_start_time>>
             /\ board'.last_gesture = board.last_gesture
             /\ board'.gesture_start_time = board.gesture_start_time]_vars

\* C15 (amended): a frame with no detected hand is a no-op for the
\* recognition state unless the key r is pressed during it.  In the loop
\* of main an iteration without a hand whose key is not r changes neither
\* gesture_history nor the controller's last_gesture and
\* gesture_start_time, and with the key r it leaves them as after
\* construction; in the loop of run an iteration without a hand changes
\* neither gesture_history nor the board's last_gesture and
\* gesture_start_time, whatever the key.
C15_NoHandFrameIsNoOpButForReset ==
    [][/\ (frames' = frames + 1 /\ hand' = NoHand /\ last_key' # "r")
            => UNCHANGED <<gesture_history, last_gesture,
                           gesture_start_time>>
       /\ (frames' = frames + 1 /\ hand' = NoHand /\ last_key' = "r")
            => /\ gesture_history' = <<>>
               /\ last_gesture' = ControllerInit.last_gesture
               /\ gesture_start_time' = ControllerInit.gesture_start_time
       /\ (board_frames' = board_frames + 1 /\ hand' = NoHand)
            => /\ UNCHANGED gesture_history
               /\ board'.last_gesture = board.last_gesture
               /\ board'.gesture_start_time = board.gesture_start_time]_vars

\* C15 witness: an iteration of main without a hand and with a key other
\* than r has passed while a hold was pending, and the window and the hold
\* are still there.
C15_Witness ==
    /\ hand = NoHand
    /\ frames > 1
    /\ last_key \in {"s", "h"}
    /\ gesture_history # <<>>
    /\ last_gesture # NoGesture
    /\ gesture_start_time # NoTime

(***************************************************************************)
(* Claims about landmark lists of a wrong length (SpecIngest).             *)
(***************************************************************************)

\* C16 (as claimed): a call of recognize_gesture or of
\* recognize_advanced_gestures with a list of fewer or more than 21 points
\* raises an error and leaves gesture_history and hand_positions_history as
\* they were.
C16_WrongLengthRejected ==
    [][(NextIngest /\ ingest_len' # 21) =>
          /\ ingest_error' # NoError
          /\ UNCHANGED <<gesture_history, hand_positions_history>>]_vars

(***************************************************************************)
(* Claims about the classification of one landmark list (SpecClassify,     *)
(* SpecTracker).                                                           *)
(***************************************************************************)

\* The fingers of the hand HandAt(p) that are up by the rule of the claims:
\* the thumb when its tip's x is greater than its IP joint's (1), another
\* finger when its tip's y is strictly less than its PIP joint's (1).
FingersUpIn(p) ==
    {finger \in FingerNames :
        IF finger = "thumb" THEN p[finger] > 1 ELSE p[finger] < 1}

\* The label the precedence of C17 gives to the set `up` of raised fingers.
LabelByPrecedence(up) ==
    IF Cardinality(up) = 0 THEN "fist"
    ELSE IF Cardinality(up) = 1
    THEN IF up = {"index"} THEN "point"
         ELSE IF up = {"thumb"} THEN "thumbs_up"
         ELSE "one"
    ELSE IF Cardinality(up) = 2
    THEN IF up = {"index", "middle"} THEN "peace" ELSE "two"
    ELSE IF Cardinality(up) = 3 THEN "three"
    ELSE IF Cardinality(up) = 4 THEN "four"
    ELSE "open_hand"

\* C17: for each of the 32 combinations of raised fingers the raw label of
\* recognize_gesture is: none up, fist; one up, point for the index finger,
\* thumbs_up for the thumb, one for any other; two up, peace for index and
\* middle, two for any other pair; three, four and open_hand for 3, 4, 5.
C17_RawLabelPrecedence ==
    raw_label # NoGesture => raw_label = LabelByPrecedence(FingersUpIn(pose))

\* C17 witness: two fingers up, the index finger one of them, that are not
\* peace.
C17_Witness ==
    /\ raw_label = "two"
    /\ FingersUpIn(pose) = {"index", "ring"}

\* C18 (as claimed): the label recognize_gesture returns for a hand depends
\* on the fingers that are up only: calls with the same fingers up have
\* returned the same label, whatever calls were made before them.
C18_SameFingersSameLabel ==
    \A p, q \in classified : p[1] = q[1] => p[2] = q[2]

\* C19: count_fingers returns the number of the five fingers that are up, an
\* integer in 0..5, where a tip level with its joint is not up.
C19_CountIsFingersUp ==
    /\ fingers_counted = Cardinality(FingersUpIn(pose))
    /\ fingers_counted \in 0..5

\* C19 witness: a hand with the index tip level with its PIP joint and the
\* thumb tip level with its IP joint, and only the middle finger counted.
C19_Witness ==
    /\ raw_label # NoGesture
    /\ pose["index"] = 1
    /\ pose["thumb"] = 1
    /\ pose["middle"] = 0
    /\ fingers_counted = 1

\* C20 (as claimed): detect_rock_on is true exactly when is_finger_up gives
\* index up, middle not up, ring not up and pinky up, whatever the thumb and
\* the count of fingers.
C20_RockOnIsFingerPattern ==
    raw_label # NoGesture =>
        (rock_on <=>
            /\ is_finger_up(HandAt(pose), "index")
            /\ ~is_finger_up(HandAt(pose), "middle")
            /\ ~is_finger_up(HandAt(pose), "ring")
            /\ is_finger_up(HandAt(pose), "pinky"))

(***************************************************************************)
(* SpecPinch: calls of detect_pinch on hands whose index tip lies at       *)
(* chosen offsets from the thumb tip.                                      *)
(***************************************************************************)
\* The offsets, per axis, of the index tip from the thumb tip: they give the
\* distances 29 (29,0 and 20,21), 30 (30,0 and 18,24) and 31 among others.
PinchOffsets == {-30, -29, -18, 0, 18, 20, 21, 24, 29, 30, 31}

\* A 21-point hand with the thumb tip at (50, 50) and the index tip at the
\* offset d from it.
PinchHand(d) ==
    [i \in 0..20 |-> IF i = INDEX_TIP THEN <<50 + d[1], 50 + d[2]>>
                     ELSE <<50, 50>>]

DetectPinch ==
    /\ \E dx \in PinchOffsets, dy \in PinchOffsets :
          /\ gap' = <<dx, dy>>
          /\ pinch' = detect_pinch(PinchHand(<<dx, dy>>))
    /\ UNCHANGED <<now, ctrl_vars, trk_vars, solo_vars, board_vars, loop_vars, adv_vars,
                   log_vars, swipe_vars, ingest_vars, cls_vars, points,
                   center_out, center_error, box_out, box_error,
                   call_landmarks, established_at>>

NextPinch == DetectPinch

SpecPinch == Init /\ [][NextPinch]_vars

\* C21: detect_pinch is true exactly when the squared distance between the
\* thumb tip and the index tip is below 30^2: it is false at distance
\* exactly 30 and true at distance 29.
C21_PinchStrictlyBelow30 ==
    /\ gap # <<0, 0>> =>
          (pinch <=> gap[1] * gap[1] + gap[2] * gap[2] < 900)
    /\ gap \in {<<30, 0>>, <<-30, 0>>, <<18, 24>>, <<24, 18>>} => ~pinch
    /\ gap \in {<<29, 0>>, <<0, -29>>, <<20, 21>>, <<21, 20>>} => pinch

\* detect_pinch has been called on a hand whose tips are exactly 30 apart,
\* off the axes.
C21_Witness == gap = <<18, 24>> /\ ~pinch

(***************************************************************************)
(* SpecWave: direct calls of recognize_advanced_gestures on a fist that    *)
(* moves between three places, after StillBeforeWave calls on a still      *)
(* fist.                                                                   *)
(***************************************************************************)
MaxWaveFrames == 7

\* The calls made on the still fist before the model starts.
StillBeforeWave == 14

\* The hands shown: the fist at three places along the x axis.
WaveFrames == {FistAt(0), FistAt(25), FistAt(50)}

InitWave ==
    /\ now = 0
    /\ CtrlInit
    /\ TrackerInit
    /\ SoloInit
    /\ LoopInit
    /\ BoardStart
    /\ LogInit
    /\ SwipeInit
    /\ IngestInit
    /\ ClassifyInit
    /\ FnInit
    /\ hand_positions_history =
          AfterStillFrames(StillBeforeWave).hand_positions_history
    /\ own_positions = [h \in HandSlots |-> <<>>]

WaveFrame ==
    /\ frames < MaxWaveFrames
    /\ frames' = frames + 1
    /\ \E landmarks \in WaveFrames, rounding \in BOOLEAN :
          \E r \in {recognize_advanced_gestures(hand_positions_history,
                                                landmarks, rounding)} :
              /\ hand_positions_history' = r.hand_positions_history
              /\ detected' = r.detected
    /\ UNCHANGED <<now, ctrl_vars, trk_vars, hand, solo_history,
                   solo_recognized, solo_last_gesture, solo_start_time,
                   solo_result, board_vars, loop_vars, own_positions, log_vars,
                   drawn_velocity, swipe_velocity, ingest_vars, cls_vars,
                   fn_vars>>

NextWave == WaveFrame

SpecWave == InitWave /\ [][NextWave]_vars

\* The x coordinates of the newest n entries of a position history.
NewestX(history, n) == [i \in 1..n |-> history[Len(history) - n + i][1]]

\* The places of xs where the direction of motion reverses: the step into
\* the place and the step out of it have opposite signs.
Reversals(xs) ==
    {i \in 2..(Len(xs) - 1) : (xs[i] - xs[i - 1]) * (xs[i + 1] - xs[i]) < 0}

\* C22: after a call of recognize_advanced_gestures, 'wave' is reported
\* exactly when the position history holds at least 20 samples and the x
\* coordinates of its newest 20 reverse direction more than 3 times; a hand
\* whose x never decreases, or never increases, over those samples is not
\* waving.
C22_WaveIsMoreThanThreeReversals ==
    frames > 0 =>
        /\ Len(hand_positions_history) < 20 => ~Reported("wave")
        /\ Len(hand_positions_history) >= 20 =>
              LET xs == NewestX(hand_positions_history, 20)
              IN  /\ Reported("wave") <=> Cardinality(Reversals(xs)) > 3
                  /\ (\A i \in 1..19 : xs[i] <= xs[i + 1])
                        => ~Reported("wave")
                  /\ (\A i \in 1..19 : xs[i] >= xs[i + 1])
                        => ~Reported("wave")

\* A hand that went right, left, right, left, right and left again over a
\* history of at least 20 samples is reported as waving.
C22_Witness ==
    /\ Len(hand_positions_history) >= 20
    /\ Cardinality(Reversals(NewestX(hand_positions_history, 20))) > 3
    /\ Reported("wave")

(***************************************************************************)
(* SpecMeasure: calls of HandTracker.get_hand_center and get_bounding_box  *)
(* on lists of points, the empty list included.                            *)
(***************************************************************************)
MaxPoints == 3

\* min(coords) and max(coords) of a list that is not empty.
MinOf(coords) == CHOOSE m \in coords : \A c \in coords : m <= c

MaxOf(coords) == CHOOSE m \in coords : \A c \in coords : m >= c

\* HandTracker.get_hand_center that rounds the mean towards zero.
HandTracker_get_hand_center_truncating(landmarks) ==
    IF NumPoints(landmarks) = 0
    THEN [value |-> NoPoint, error |-> "ZeroDivisionError"]
    ELSE LET n == NumPoints(landmarks)
             trunc(s) == IF s < 0 THEN -((-s) \div n) ELSE s \div n
         IN  [value |-> <<trunc(SumCoord(landmarks, 1, n - 1)),
                          trunc(SumCoord(landmarks, 2, n - 1))>>,
              error |-> NoError]

\* HandTracker.get_hand_center: the value returned and the exception
\* raised.  For the empty list, sum([]) // len([]) is 0 // 0.
HandTracker_get_hand_center(landmarks) ==
    IF NumPoints(landmarks) = 0
    THEN [value |-> NoPoint, error |-> "ZeroDivisionError"]
    ELSE LET center_x == SumCoord(landmarks, 1, NumPoints(landmarks) - 1)
                            \div NumPoints(landmarks)
             center_y == SumCoord(landmarks, 2, NumPoints(landmarks) - 1)
                            \div NumPoints(landmarks)
         IN  [value |-> <<center_x, center_y>>, error |-> NoError]

\* HandTracker.get_bounding_box: the value returned and the exception
\* raised.  For the empty list, min([]) raises ValueError.
get_bounding_box(landmarks) ==
    IF NumPoints(landmarks) = 0
    THEN [value |-> NoPoint, error |-> "ValueError"]
    ELSE LET x_coords == {landmarks[i][1] : i \in DOMAIN landmarks}
             y_coords == {landmarks[i][2] : i \in DOMAIN landmarks}
         IN  [value |-> <<MinOf(x_coords), MinOf(y_coords),
                          MaxOf(x_coords), MaxOf(y_coords)>>,
              error |-> NoError]

\* The Python list of the points of a sequence: indices from 0.
ListOf(seq) == [i \in 0..(Len(seq) - 1) |-> seq[i + 1]]

\* The points the lists of the model are made of.
PointChoices ==
    {<<0, 0>>, <<1, 1>>, <<10, 0>>, <<10, 10>>, <<0, 10>>, <<-3, 1>>}

\* The square of test_get_hand_center and the triangle of
\* test_get_bounding_box.
SquarePoints == ListOf(<< <<0, 0>>, <<10, 0>>, <<10, 10>>, <<0, 10>> >>)

TrianglePoints == ListOf(<< <<0, 0>>, <<10, 5>>, <<5, 10>> >>)

\* The lists passed: every list of up to MaxPoints of the points, the empty
\* list included, and the lists of the tests.
PointLists ==
    {ListOf(seq) : seq \in UNION {[1..n -> PointChoices] : n \in 0..MaxPoints}}
        \cup {SquarePoints, TrianglePoints}

\* A list has been chosen and neither function has been called on it.
InitMeasure ==
    /\ now = 0
    /\ CtrlInit
    /\ TrackerInit
    /\ SoloInit
    /\ LoopInit
    /\ BoardStart
    /\ AdvStart
    /\ LogInit
    /\ SwipeInit
    /\ IngestInit
    /\ ClassifyInit
    /\ gap = <<0, 0>>
    /\ pinch = FALSE
    /\ points \in PointLists
    /\ center_out = NoPoint
    /\ center_error = NoError
    /\ box_out = NoPoint
    /\ box_error = NoError
    /\ call_landmarks = NoPoint
    /\ established_at = NoTime

\* Whether get_hand_center and get_bounding_box have been called on points.
Measured == center_out # NoPoint \/ center_error # NoError

Measure ==
    /\ ~Measured
    /\ center_out' = HandTracker_get_hand_center(points).value
    /\ center_error' = HandTracker_get_hand_center(points).error
    /\ box_out' = get_bounding_box(points).value
    /\ box_error' = get_bounding_box(points).error
    /\ UNCHANGED <<now, ctrl_vars, trk_vars, solo_vars, board_vars, loop_vars, adv_vars,
                   log_vars, swipe_vars, ingest_vars, cls_vars, gap, pinch,
                   points, call_landmarks, established_at>>

NextMeasure == Measure

SpecMeasure == InitMeasure /\ [][NextMeasure]_vars

\* C23 (as claimed): a call of get_hand_center or of get_bounding_box on an
\* empty list fails with EmptyInputError, not with an arithmetic fault or
\* another exception, and returns no value.
C23_EmptyListIsEmptyInputError ==
    [][(NextMeasure /\ NumPoints(points) = 0)
          => /\ center_error' = "EmptyInputError"
             /\ box_error' = "EmptyInputError"
             /\ center_out' = NoPoint
             /\ box_out' = NoPoint]_vars

\* The sum of coordinate k of a list that is not empty.
CoordSum(landmarks, k) == SumCoord(landmarks, k, NumPoints(landmarks) - 1)

\* C24: for a list of integer points that is not empty, get_hand_center
\* returns the floors of the means of x and of y (the integer c with
\* n c <= sum < n (c + 1)) and get_bounding_box returns (min x, min y,
\* max x, max y); the square (0,0),(10,0),(10,10),(0,10) has center (5,5)
\* and box (0,0,10,10), and (0,0),(1,1) has center (0,0) and box (0,0,1,1).
C24_CenterIsFloorMeanBoxIsExtremes ==
    Measured =>
        /\ NumPoints(points) > 0 =>
              LET n == NumPoints(points)
                  xs == {points[i][1] : i \in DOMAIN points}
                  ys == {points[i][2] : i \in DOMAIN points}
              IN  /\ center_error = NoError /\ box_error = NoError
                  /\ \A k \in 1..2 :
                        /\ n * center_out[k] <= CoordSum(points, k)
                        /\ CoordSum(points, k) < n * (center_out[k] + 1)
                  /\ box_out[1] \in xs /\ \A x \in xs : box_out[1] <= x
                  /\ box_out[2] \in ys /\ \A y \in ys : box_out[2] <= y
                  /\ box_out[3] \in xs /\ \A x \in xs : box_out[3] >= x
                  /\ box_out[4] \in ys /\ \A y \in ys : box_out[4] >= y
        /\ points = SquarePoints =>
              center_out = <<5, 5>> /\ box_out = <<0, 0, 10, 10>>
        /\ points = ListOf(<< <<0, 0>>, <<1, 1>> >>) =>
              center_out = <<0, 0>> /\ box_out = <<0, 0, 1, 1>>

\* Both functions have been called on a list whose mean x is negative and
\* not an integer, so that the floor is not the truncation.
C24_Witness ==
    /\ Measured
    /\ points = ListOf(<< <<-3, 1>>, <<0, 0>> >>)
    /\ center_out = <<-2, 0>>
    /\ box_out = <<-3, 0, 0, 1>>

(***************************************************************************)
(* SpecDispatch: calls of GestureController.process_gesture with every     *)
(* label of gesture_actions, labels without an entry, and the landmarks of *)
(* any hand, whatever the label.                                           *)
(***************************************************************************)
MaxDispatchTime == 3

\* The gestures passed: the keys of gesture_actions and two labels without
\* an entry.
DispatchGestures == DOMAIN gesture_actions \cup {"unknown", "pinch"}

\* The handler of `gesture` called on the landmarks of a hand of its own
\* choosing: it classifies the landmarks itself.
invoke_action_reading_landmarks(gesture, landmarks) ==
    gesture_actions[raw_gesture(landmarks)]

\* self.gesture_actions[gesture](landmarks): on_fist .. on_four return a
\* fixed string and read neither landmarks nor self.
invoke_action(gesture, landmarks) == gesture_actions[gesture]

\* GestureController.process_gesture(gesture, landmarks) at time
\* current_time, with the handler called on the landmarks.
process_gesture_on(c, gesture, landmarks, current_time) ==
    LET r == process_gesture(c, gesture, current_time)
    IN  IF r.result = NoGesture THEN r
        ELSE [r EXCEPT !.result = invoke_action(gesture, landmarks)]

DispatchTick ==
    /\ now < MaxDispatchTime
    /\ now' = now + 1
    /\ UNCHANGED <<ctrl_vars, trk_vars, solo_vars, board_vars, adv_vars,
                   ext_vars>>

Dispatch ==
    /\ \E gesture \in DispatchGestures, landmarks \in Frames :
          \E r \in {process_gesture_on(
                        [last_gesture |-> last_gesture,
                         gesture_start_time |-> gesture_start_time],
                        gesture, landmarks, now)} :
              /\ last_gesture' = r.last_gesture
              /\ gesture_start_time' = r.gesture_start_time
              /\ result' = r.result
              /\ call_gesture' = gesture
              /\ call_landmarks' = landmarks
              /\ call_time' = now
              /\ hold_start' = IF gesture # call_gesture THEN now
                               ELSE hold_start
              /\ hold_fires' =
                    (IF gesture # call_gesture THEN 0 ELSE hold_fires)
                        + (IF r.result # NoGesture THEN 1 ELSE 0)
    /\ UNCHANGED <<now, fired_before, trk_vars, solo_vars, board_vars, loop_vars,
                   adv_vars, log_vars, swipe_vars, ingest_vars, cls_vars,
                   gap, pinch, points, center_out, center_error, box_out,
                   box_error, established_at>>

NextDispatch == DispatchTick \/ Dispatch

SpecDispatch == Init /\ [][NextDispatch]_vars

\* The results the claim lists, by label.
ClaimedResults ==
    [ fist      |-> "Fist detected - Action: Reset",
      open_hand |-> "Open hand detected - Action: Stop/Pause",
      point     |-> "Point detected - Action: Select/Click",
      peace     |-> "Peace sign detected - Action: Victory/Confirm",
      thumbs_up |-> "Thumbs up detected - Action: Approve/Like",
      one       |-> "One finger detected - Action: Option 1",
      two       |-> "Two fingers detected - Action: Option 2",
      three     |-> "Three fingers detected - Action: Option 3",
      four      |-> "Four fingers detected - Action: Option 4" ]

\* C25: the result of a process_gesture call that fires is the entry of the
\* label in a fixed table, whatever the landmarks passed; a call with a label
\* that has no entry returns no result, however long the label has been
\* held; and the handler leaves the controller as it is: last_gesture keeps
\* its value and gesture_start_time is the None that process_gesture sets.
C25_ResultIsTableEntryOfLabel ==
    [][Dispatch =>
          /\ result' # NoGesture =>
                /\ call_gesture' \in DOMAIN ClaimedResults
                /\ result' = ClaimedResults[call_gesture']
                /\ last_gesture' = last_gesture
                /\ gesture_start_time' = NoTime
          /\ call_gesture' \notin DOMAIN ClaimedResults =>
                /\ result' = NoGesture
                /\ hold_fires' = 0]_vars

\* A hold of 'fist' has fired on a call that passed the landmarks of an open
\* hand.
C25_Witness ==
    /\ call_gesture = "fist"
    /\ call_landmarks = HandShowing(FingerNames)
    /\ result = "Fist detected - Action: Reset"

(***************************************************************************)
(* Claims about the change of gesture (SpecController).                    *)
(***************************************************************************)

\* C26: a process_gesture call whose gesture differs from last_gesture sets
\* last_gesture to the new gesture and gesture_start_time to the current
\* time, whether or not the previous hold had fired, and returns no result.
C26_ChangeRestartsHold ==
    [][(ProcessGesture /\ call_gesture' # last_gesture)
          => /\ last_gesture' = call_gesture'
             /\ gesture_start_time' = now
             /\ result' = NoGesture]_vars

\* The hold of a gesture has fired, and the call that changed the gesture
\* has just been made: the timer of the new hold starts now.
C26_Witness ==
    /\ fired_before # {}
    /\ call_gesture \notin fired_before
    /\ hold_start = now /\ call_time = now /\ hold_fires = 0
    /\ last_gesture = call_gesture
    /\ gesture_start_time = now

(***************************************************************************)
(* SpecJitter: calls of recognize_gesture, one per frame, on a tracker     *)
(* that is new or whose window is full of one label.                       *)
(***************************************************************************)
MaxJitterFrames == 6

\* The hands shown, one for each raw label of the model.
JitterFrames == {HandShowing(up) : up \in InputFingers}

\* The window of a tracker after gesture_buffer_size frames of one label.
FullOf(label) == [i \in 1..gesture_buffer_size |-> label]

\* A new tracker, or one that has seen gesture_buffer_size frames of one
\* label and has returned that label.
InitJitter ==
    /\ now = 0
    /\ CtrlInit
    /\ SoloInit
    /\ LoopInit
    /\ BoardStart
    /\ AdvStart
    /\ SwipeInit
    /\ IngestInit
    /\ ClassifyInit
    /\ FnInit
    /\ center_calls = <<>>
    /\ classified = {}
    /\ \/ /\ gesture_history = <<>>
          /\ recognized = NoGesture
       \/ \E label \in RawLabels :
             /\ gesture_history = FullOf(label)
             /\ recognized = label
    /\ raw_calls = gesture_history

JitterFrame ==
    /\ frames < MaxJitterFrames
    /\ frames' = frames + 1
    /\ \E landmarks \in JitterFrames, order \in IterOrders :
          \E r \in {recognize_gesture(gesture_history, landmarks, order)} :
              /\ gesture_history' = r.gesture_history
              /\ recognized' = r.gesture
              /\ raw_calls' = Append(raw_calls, raw_gesture(landmarks))
    /\ UNCHANGED <<now, ctrl_vars, hand, solo_history, solo_recognized,
                   solo_last_gesture, solo_start_time, solo_result,
                   board_vars, loop_vars, adv_vars, center_calls, classified,
                   swipe_vars, ingest_vars, cls_vars, fn_vars>>

NextJitter == JitterFrame

SpecJitter == InitJitter /\ [][NextJitter]_vars

\* Frame k of the log is a lone frame of another label: the
\* gesture_buffer_size frames before it and all the frames after it have
\* raw label a, and frame k has not.
LoneJitterAt(k, a) ==
    /\ k > gesture_buffer_size
    /\ raw_calls[k] # a
    /\ \A i \in (k - gesture_buffer_size)..(k - 1) : raw_calls[i] = a
    /\ \A i \in (k + 1)..Len(raw_calls) : raw_calls[i] = a

\* C27: with one push per frame, when the window is full of a label A, a
\* single frame of another raw label followed by frames of A never makes
\* recognize_gesture return anything but A; and whenever the raw label is
\* the same on 3 consecutive frames, the third frame returns that label.
C27_JitterSuppressedThreeFramesWin ==
    /\ \A k \in DOMAIN raw_calls, a \in RawLabels :
          LoneJitterAt(k, a) => recognized = a
    /\ \A b \in RawLabels :
          (/\ Len(raw_calls) >= 3
           /\ \A i \in (Len(raw_calls) - 2)..Len(raw_calls) : raw_calls[i] = b)
              => recognized = b

\* A lone frame of 'point' in a window full of 'fist' has been followed by
\* four frames of 'fist' and is the oldest entry of the window; every frame
\* returned 'fist'.
C27_Witness ==
    /\ Len(raw_calls) = 2 * gesture_buffer_size
    /\ LoneJitterAt(gesture_buffer_size + 1, "fist")
    /\ gesture_history[1] = "point"
    /\ recognized = "fist"

(***************************************************************************)
(* SpecPipeline: the loop of main with one hand in every frame, the        *)
(* single-hand pipeline recognize_gesture -> process_gesture, from an      *)
(* established hold: the hand has shown one label for gesture_buffer_size  *)
(* frames within one reading of the clock, so that the window is full of   *)
(* the label and the controller has been timing it since that reading.     *)
(***************************************************************************)
MaxPipelineTime == 4

MaxPipelineFrames == 3

\* The clock readings at which the hold of the initial state began.
HoldStarts == {0, 1}

InitPipeline ==
    /\ SoloInit
    /\ LoopInit
    /\ BoardStart
    /\ AdvStart
    /\ SwipeInit
    /\ IngestInit
    /\ ClassifyInit
    /\ gap = <<0, 0>>
    /\ pinch = FALSE
    /\ points = <<>>
    /\ center_out = NoPoint
    /\ center_error = NoError
    /\ box_out = NoPoint
    /\ box_error = NoError
    /\ call_landmarks = NoPoint
    /\ center_calls = <<>>
    /\ classified = {}
    /\ fired_before = {}
    /\ \E label \in RawLabels, start \in HoldStarts :
          /\ now = start
          /\ established_at = start
          /\ gesture_history = FullOf(label)
          /\ raw_calls = FullOf(label)
          /\ recognized = label
          /\ last_gesture = label
          /\ gesture_start_time = start
          /\ result = NoGesture
          /\ call_gesture = label
          /\ call_time = start
          /\ hold_start = start
          /\ hold_fires = 0

PipelineTick ==
    /\ main_running
    /\ now < MaxPipelineTime
    /\ now' = now + 1
    /\ UNCHANGED <<ctrl_vars, trk_vars, solo_vars, board_vars, adv_vars,
                   ext_vars>>

\* One iteration of `while True` in main for a frame with one hand:
\* main_iteration, and the history of its process_gesture call, which the
\* key r clears with the hold.
PipelineFrame ==
    /\ main_running
    /\ frames < MaxPipelineFrames
    /\ \E success \in BOOLEAN :
       \E landmarks \in IF success THEN JitterFrames
                        ELSE {HandShowing({})},
          key \in IF success THEN MainKeys ELSE {"none"} :
       \E r \in {main_iteration(MainState, success, <<landmarks>>, key,
                                order, times) :
                    order \in OrdersOf(LabelsWith(gesture_history,
                                                   <<landmarks>>)),
                    times \in Readings(now,
                                       1 + (IF key = "s" THEN 1 ELSE 0),
                                       MaxPipelineTime)} :
          /\ main_running' = r.running
          /\ now' = r.clock
          /\ gesture_history' = r.gesture_history
          /\ last_gesture' = r.last_gesture
          /\ gesture_start_time' = r.gesture_start_time
          /\ show_help' = r.show_help
          /\ frame_files' = r.frame_files
          /\ IF success
             THEN LET called == r.calls[1]
                      new_hold == called.gesture # call_gesture
                      fired == IF called.action # NoGesture THEN 1 ELSE 0
                  IN  /\ frames' = frames + 1
                      /\ last_key' = key
                      /\ hand' = 0
                      /\ recognized' = called.gesture
                      /\ result' = called.action
                      /\ slot0_gesture' = called.gesture
                      /\ slot0_action' = called.action
                      /\ IF key = "r"
                         THEN /\ call_gesture' = NoGesture
                              /\ call_time' = NoTime
                              /\ hold_start' = NoTime
                              /\ hold_fires' = 0
                              /\ fired_before' = {}
                              /\ raw_calls' = <<>>
                              /\ established_at' = NoTime
                         ELSE /\ call_gesture' = called.gesture
                              /\ call_time' = called.time
                              /\ hold_start' = IF new_hold THEN called.time
                                               ELSE hold_start
                              /\ hold_fires' = IF new_hold THEN fired
                                               ELSE hold_fires + fired
                              /\ fired_before' =
                                    IF new_hold /\ hold_fires > 0
                                    THEN fired_before \cup {call_gesture}
                                    ELSE fired_before
                              /\ raw_calls' =
                                    Append(raw_calls, raw_gesture(landmarks))
                              /\ UNCHANGED established_at
             ELSE UNCHANGED <<frames, last_key, hand, recognized, result,
                              slot0_gesture, slot0_action, call_gesture,
                              call_time, hold_start, hold_fires,
                              fired_before, raw_calls, established_at>>
    /\ UNCHANGED <<solo_history, solo_recognized, solo_last_gesture,
                   solo_start_time, solo_result, board_vars, adv_vars,
                   center_calls, classified, swipe_vars, ingest_vars,
                   cls_vars, gap, pinch, points, center_out, center_error,
                   box_out, box_error, call_landmarks>>

NextPipeline == PipelineTick \/ PipelineFrame

SpecPipeline == InitPipeline /\ [][NextPipeline]_vars

\* The hold has not been cleared with the key r, and the frames since it
\* was established held its label, but for one frame with another raw
\* label.
OneMisclassifiedFrame ==
    /\ established_at # NoTime
    /\ \E k \in DOMAIN raw_calls : LoneJitterAt(k, raw_calls[1])

\* C28 (as claimed): in the pipeline recognize_gesture -> process_gesture,
\* one misclassified raw frame during an established hold (window full of
\* the held label) neither resets gesture_start_time nor re-arms the hold:
\* the controller goes on timing the held label from the original start, the
\* action has fired once the pipeline has run at or after the original
\* deadline of min_gesture_duration, and it never fires a second time.
C28_JitterDoesNotDisturbHold ==
    OneMisclassifiedFrame =>
        /\ last_gesture = raw_calls[1]
        /\ call_gesture = raw_calls[1]
        /\ hold_start = established_at
        /\ gesture_start_time \in {established_at, NoTime}
        /\ hold_fires <= 1
        /\ call_time - established_at >= min_gesture_duration
              => hold_fires = 1

(***************************************************************************)
(* Claims about the clock of the hold (SpecController).                    *)
(***************************************************************************)

\* C29 (as claimed): the hold is timed by the clock, not by the number of
\* calls: a process_gesture call with the gesture of the call before it, a
\* gesture with an action whose hold has not fired, returns the action
\* exactly when min_gesture_duration has elapsed since the first call of the
\* hold, however long no call was made and even when that first call is the
\* only one before it.
C29_HoldTimedByClock ==
    [][(/\ ProcessGesture
        /\ call_gesture' = call_gesture
        /\ call_gesture \in DOMAIN gesture_actions
        /\ hold_fires = 0)
          => (result' = gesture_actions[call_gesture]
                <=> now - hold_start >= min_gesture_duration)]_vars

(***************************************************************************)
(* SpecLabels: calls of recognize_gesture on hands with every combination  *)
(* of raised fingers.                                                      *)
(***************************************************************************)
MaxLabelFrames == 2

\* The hands shown: each finger's tip either up or down (the thumb's tip to
\* the right or to the left of its IP joint), 32 hands.
LabelPoses == [FingerNames -> {0, 2}]

LabelFrame ==
    /\ frames < MaxLabelFrames
    /\ frames' = frames + 1
    /\ \E p \in LabelPoses :
       \E order \in OrdersOf(LabelsIn(push_gesture(gesture_history,
                                                    raw_gesture(HandAt(p))))) :
       \E r \in {recognize_gesture(gesture_history, HandAt(p), order)} :
          /\ pose' = p
          /\ fingers_counted' = count_fingers(HandAt(p))
          /\ raw_label' = raw_gesture(HandAt(p))
          /\ gesture_history' = r.gesture_history
          /\ recognized' = r.gesture
    /\ UNCHANGED <<now, ctrl_vars, hand, solo_history, solo_recognized,
                   solo_last_gesture, solo_start_time, solo_result,
                   board_vars, loop_vars, adv_vars, log_vars, swipe_vars, ingest_vars,
                   rock_on, fn_vars>>

NextLabels == LabelFrame

SpecLabels == Init /\ [][NextLabels]_vars

\* The nine labels of the claim.
NineLabels ==
    {"fist", "point", "thumbs_up", "one", "peace", "two", "three", "four",
     "open_hand"}

\* C30: 'unknown' is unreachable: the raw label of every frame of 21 points
\* is one of the nine labels, so gesture_history never contains 'unknown',
\* the label recognize_gesture returns is never 'unknown', and every label it
\* returns has an entry in gesture_actions.
C30_UnknownUnreachable ==
    /\ raw_label # NoGesture => raw_label \in NineLabels
    /\ \A i \in DOMAIN gesture_history : gesture_history[i] \in NineLabels
    /\ recognized # NoGesture =>
          /\ recognized \in NineLabels
          /\ recognized \in DOMAIN gesture_actions

\* A hand with one finger up that is neither the index nor the thumb, then
\* a hand with four fingers up, have been recognized.
C30_Witness ==
    /\ gesture_history = <<"one", "four">>
    /\ raw_label = "four"
    /\ fingers_counted = 4
    /\ recognized \in {"one", "four"}

=============================================================================
